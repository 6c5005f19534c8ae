--------------------------- MODULE FuseConnProofs ---------------------------
(***************************************************************************)
(* Proofs about the life of a connection: FuseMount (the instance M of     *)
(* MCFuseConn) and Cuse (the instance U), for any number of mounts, files, *)
(* processes, channels, clients and device numbers.                        *)
(***************************************************************************)
EXTENDS MCFuseConn, FiniteSetTheorems, TLAPS

USE ConnAssumption

(* The pointers to m, and counting them.                                   *)
PointTo(S, g, m) == {s \in S : g[s] = m}

LEMMA CountNat ==
    ASSUME NEW S, IsFiniteSet(S), NEW g, NEW m
    PROVE  /\ IsFiniteSet(PointTo(S, g, m))
           /\ Cardinality(PointTo(S, g, m)) \in Nat
           /\ Cardinality(PointTo(S, g, m)) = 0 <=> PointTo(S, g, m) = {}
<1>1. PointTo(S, g, m) \subseteq S
  BY DEF PointTo
<1> QED
  BY <1>1, FS_Subset, FS_CardinalityType, FS_EmptySet

-----------------------------------------------------------------------------
(* FuseMount: types, and where a mount can be.                             *)
Conn == [alive : BOOLEAN, count : Nat, dev_count : Nat, connected : BOOLEAN,
         initialized : BOOLEAN, conn_init : BOOLEAN, sb : BOOLEAN, bdi : BOOLEAN,
         listed : BOOLEAN, ctl : BOOLEAN,
         destroy : {"none", "alloc", "sent", "answered"}]
Mounting == {"fput", "send_init", "mounted"}
Unmounting == {"put_super", "destroy", "abort", "remove"}
Attached == Mounting \cup Unmounting
Phases == {"idle", "setup", "publish", "failed", "gone"} \cup Attached

Devices(m) == Cardinality(PointTo(Files, priv, m))
CtlUsers(m) == Cardinality(PointTo(Users, user, m))
Own(p) == IF p = "publish" THEN 2 ELSE IF p \in Attached THEN 1 ELSE 0

(* One mount: its phase p, its connection c, s_fs_info s, its file h, its  *)
(* INIT request i, the numbers d and k of device files and control file    *)
(* operations on the connection; x: the control file system is mounted.    *)
(*   - what fuse_fill_super has set up it keeps until kill_sb;             *)
(*   - only published connections are listed, in control files, or used;   *)
(*   - fc->count and fc->dev_count are exact, and once the last device is  *)
(*     closed the connection is aborted;                                   *)
(*   - fc->sb is reset before anything else is taken down;                 *)
(*   - the end of INIT releases who waits for it.                          *)
MountOk(p, c, s, h, i, d, k, x) ==
    /\ p \in Phases /\ c \in Conn /\ s \in BOOLEAN /\ h \in Files \cup {Nil}
    /\ i \in {"none", "queued", "read", "ended"}
    /\ p \in {"setup", "publish", "fput"} => h \in Files
    /\ p \in {"publish"} \cup Mounting => s /\ c.sb
    /\ c.listed \/ c.ctl => p \in Attached
    /\ c.ctl => x
    /\ d > 0 \/ k > 0 => p \in Attached \cup {"gone"}
    /\ c.count = Own(p) + d + k
    /\ c.alive <=> c.count > 0
    /\ p = "publish" => c.dev_count = 1
    /\ p \in Attached \/ d > 0 => c.dev_count = d
    /\ p \in Attached /\ c.connected => d > 0
    /\ d > 0 /\ p \notin Mounting => ~c.sb
    /\ p = "mounted" /\ i = "ended" => c.initialized

Mount(m) == MountOk(mpc[m], fc[m], fs_info[m], mfile[m], init[m], Devices(m), CtlUsers(m),
                    ctlsb)

MountType ==
    /\ mpc = [m \in Mounts |-> mpc[m]] /\ fc = [m \in Mounts |-> fc[m]]
    /\ fs_info = [m \in Mounts |-> fs_info[m]]
    /\ mfile = [m \in Mounts |-> mfile[m]] /\ init = [m \in Mounts |-> init[m]]

FilesType ==
    /\ uopen \in [Files -> BOOLEAN] /\ priv \in [Files -> Mounts \cup {Nil}]
    /\ notify \in [Files -> Mounts \cup {Nil}] /\ ctlsb \in BOOLEAN
    /\ user \in [Users -> Mounts \cup {Nil}]

(* killsb: a super block is not shut down while a notification uses it.    *)
NotifyInv == \A f \in Files : notify[f] # Nil => mpc[notify[f]] \in Mounting

ModuleInv ==
    /\ registered \in {{}, M!Done(8)}
    /\ registered = {} => /\ \A f \in Files : ~uopen[f] /\ priv[f] = Nil
                          /\ \A m \in Mounts : mpc[m] \in {"idle", "gone"}

MountInv ==
    /\ MountType /\ FilesType
    /\ \A m \in Mounts : Mount(m)
    /\ NotifyInv
    /\ ModuleInv

LEMMA CountsNat ==
    ASSUME NEW m
    PROVE  /\ Devices(m) \in Nat /\ CtlUsers(m) \in Nat
           /\ Devices(m) > 0 <=> \E f \in Files : priv[f] = m
           /\ CtlUsers(m) > 0 <=> \E u \in Users : user[u] = m
<1>1. ASSUME NEW S, IsFiniteSet(S), NEW g
      PROVE  /\ Cardinality(PointTo(S, g, m)) \in Nat
             /\ Cardinality(PointTo(S, g, m)) > 0 <=> \E s \in S : g[s] = m
  <2>1. Cardinality(PointTo(S, g, m)) \in Nat
        /\ (Cardinality(PointTo(S, g, m)) = 0 <=> PointTo(S, g, m) = {})
    BY <1>1, CountNat
  <2>2. PointTo(S, g, m) # {} <=> \E s \in S : g[s] = m
    BY DEF PointTo
  <2>3. ASSUME NEW n \in Nat PROVE n > 0 <=> n # 0
    OBVIOUS
  <2> QED
    BY <2>1, <2>2, <2>3
<1> QED
  BY <1>1 DEF Devices, CtlUsers

(* FuseMount's own copy of an operator of FiniteSets.                      *)
LEMMA SameCardinality == ASSUME NEW S PROVE M!Cardinality(S) = Cardinality(S)
  BY Zenon DEF M!Cardinality, Cardinality

(* What the invariant says is what the runs check.                         *)
LEMMA MountInvSafe == MountInv => ConnSafe /\ Served /\ SbLive
<1> SUFFICES ASSUME MountInv PROVE ConnSafe /\ Served /\ SbLive
  OBVIOUS
<1>1. ASSUME NEW m \in Mounts
      PROVE  /\ M!OwnRefs(m) = Own(mpc[m])
             /\ Devices(m) \in Nat /\ CtlUsers(m) \in Nat
             /\ Devices(m) > 0 <=> {f \in Files : priv[f] = m} # {}
             /\ MountOk(mpc[m], fc[m], fs_info[m], mfile[m], init[m], Devices(m),
                        CtlUsers(m), ctlsb)
  <2>1. Mount(m)
    BY DEF MountInv
  <2>2. mpc[m] \in Phases
    BY <2>1 DEF Mount, MountOk
  <2>3. M!OwnRefs(m) = Own(mpc[m])
    BY <2>2 DEF M!OwnRefs, Own, Phases, Attached, Mounting, Unmounting
  <2> QED
    BY <2>1, <2>3, CountsNat DEF Mount
<1>2. M!ConnRefs
  <2>1. ASSUME NEW m \in Mounts
        PROVE  LET refs == M!OwnRefs(m) + Devices(m) + CtlUsers(m)
               IN  fc[m].count = refs /\ (fc[m].alive <=> refs > 0)
    BY <1>1 DEF MountOk
  <2>2. ASSUME NEW m \in Mounts
        PROVE  /\ Devices(m) = Cardinality({f \in Files : priv[f] = m})
               /\ CtlUsers(m) = Cardinality({u \in Users : user[u] = m})
    BY Zenon DEF Devices, CtlUsers, PointTo
  <2> QED
    BY <2>1, <2>2, SameCardinality DEF M!ConnRefs
<1>3. M!CtlValid
  <2>1. ASSUME NEW m \in Mounts, fc[m].ctl
        PROVE  ctlsb /\ fc[m].alive /\ mpc[m] # "gone"
    <3>1. ctlsb /\ mpc[m] \in Attached
      BY <1>1, <2>1 DEF MountOk
    <3>2. Own(mpc[m]) = 1 /\ mpc[m] # "gone"
      BY <3>1 DEF Own, Attached, Mounting, Unmounting
    <3>3. fc[m].count = 1 + Devices(m) + CtlUsers(m) /\ (fc[m].alive <=> fc[m].count > 0)
      BY <1>1, <3>2 DEF MountOk
    <3>4. Devices(m) \in Nat /\ CtlUsers(m) \in Nat
      BY <1>1
    <3>5. fc[m].count > 0
      BY <3>3, <3>4
    <3> QED
      BY <3>1, <3>2, <3>3, <3>5
  <2> QED
    BY <2>1 DEF M!CtlValid
<1>4. M!ModuleBalanced
  BY DEF M!ModuleBalanced, MountInv, ModuleInv
<1>5. M!LastCloseAborts
  <2>1. ASSUME NEW m \in Mounts, mpc[m] \in {"fput", "send_init", "mounted"}
        PROVE  /\ fc[m].dev_count = Devices(m)
               /\ fc[m].connected => {f \in Files : priv[f] = m} # {}
    BY <1>1, <2>1 DEF MountOk, Attached, Mounting
  <2>2. ASSUME NEW m \in Mounts
        PROVE  Devices(m) = Cardinality({f \in Files : priv[f] = m})
    BY Zenon DEF Devices, PointTo
  <2> QED
    BY <2>1, <2>2, SameCardinality DEF M!LastCloseAborts
<1>6. M!InitReleases
  BY <1>1 DEF M!InitReleases, MountOk
<1>7. M!SbLive
  BY DEF M!SbLive, MountInv, NotifyInv, Mounting
<1> QED
  BY <1>2, <1>3, <1>4, <1>5, <1>6, <1>7
     DEF ConnSafe, Served, SbLive, M!ConnSafe, M!Served

-----------------------------------------------------------------------------
(* A step disturbs the state of one mount only.                            *)
Others(m) ==
    \A n \in Mounts \ {m} :
        /\ mpc'[n] = mpc[n] /\ fc'[n] = fc[n] /\ fs_info'[n] = fs_info[n]
        /\ mfile'[n] = mfile[n] /\ init'[n] = init[n]
        /\ Devices(n)' = Devices(n) /\ CtlUsers(n)' = CtlUsers(n)

LEMMA OneMount ==
    ASSUME MountInv, NEW m \in Mounts, Others(m), MountType', FilesType', ctlsb' = ctlsb,
           NEW d \in Nat, NEW k \in Nat, Devices(m)' = d, CtlUsers(m)' = k,
           MountOk(mpc'[m], fc'[m], fs_info'[m], mfile'[m], init'[m], d, k, ctlsb),
           \A f \in Files : notify'[f] = notify[f],
           mpc[m] \in Mounting /\ mpc'[m] \notin Mounting => \A f \in Files : notify[f] # m,
           registered' = registered,
           registered = {} => /\ \A f \in Files : ~uopen'[f] /\ priv'[f] = Nil
                              /\ mpc'[m] \in {"idle", "gone"}
    PROVE  MountInv'
<1>1. \A n \in Mounts : Mount(n)'
  <2>1. Mount(m)'
    BY DEF Mount
  <2>2. ASSUME NEW n \in Mounts \ {m} PROVE Mount(n)'
    <3>1. Mount(n)
      BY DEF MountInv
    <3> QED
      BY <2>2, <3>1 DEF Mount, Others
  <2> QED
    BY <2>1, <2>2
<1>2. NotifyInv'
  BY DEF NotifyInv, Others, MountInv, FilesType
<1>3. ModuleInv'
  <2>1. registered = {} => \A n \in Mounts : mpc'[n] \in {"idle", "gone"}
    BY DEF MountInv, ModuleInv, Others
  <2> QED
    BY <2>1 DEF MountInv, ModuleInv
<1> QED
  BY <1>1, <1>2, <1>3 DEF MountInv

(* The same when no device file and no control file operation comes or     *)
(* goes: everything the step does, it does to m.                           *)
LEMMA OnlyMount ==
    ASSUME MountInv, NEW m \in Mounts, NEW p, NEW c, NEW s, NEW h, NEW i,
           mpc' = [mpc EXCEPT ![m] = p], fc' = [fc EXCEPT ![m] = c],
           fs_info' = [fs_info EXCEPT ![m] = s], mfile' = [mfile EXCEPT ![m] = h],
           init' = [init EXCEPT ![m] = i],
           UNCHANGED <<uopen, priv, notify, ctlsb, user, registered>>,
           \A d, k \in Nat :
             MountOk(mpc[m], fc[m], fs_info[m], mfile[m], init[m], d, k, ctlsb)
             => MountOk(p, c, s, h, i, d, k, ctlsb),
           mpc[m] \in Mounting /\ p \notin Mounting => \A f \in Files : notify[f] # m,
           registered = {} => p \in {"idle", "gone"}
    PROVE  MountInv'
<1>1. MountType' /\ FilesType'
  BY DEF MountInv, MountType, FilesType
<1>2. mpc'[m] = p /\ fc'[m] = c /\ fs_info'[m] = s /\ mfile'[m] = h /\ init'[m] = i
  BY DEF MountInv, MountType
<1>3. ASSUME NEW n \in Mounts
      PROVE  Devices(n)' = Devices(n) /\ CtlUsers(n)' = CtlUsers(n)
  BY DEF Devices, CtlUsers
<1>4. Others(m)
  BY <1>3 DEF Others, MountInv, MountType
<1>5. Devices(m) \in Nat /\ CtlUsers(m) \in Nat
  BY CountsNat
<1>6. MountOk(p, c, s, h, i, Devices(m), CtlUsers(m), ctlsb)
  BY <1>5 DEF MountInv, Mount
<1>7. MountOk(mpc'[m], fc'[m], fs_info'[m], mfile'[m], init'[m], Devices(m), CtlUsers(m),
              ctlsb)
  BY <1>2, <1>6
<1>8. registered = {} => /\ \A f \in Files : ~uopen'[f] /\ priv'[f] = Nil
                         /\ mpc'[m] \in {"idle", "gone"}
  BY <1>2 DEF MountInv, ModuleInv
<1>9. mpc[m] \in Mounting /\ mpc'[m] \notin Mounting => \A f \in Files : notify[f] # m
  BY <1>2
<1>10. \A f \in Files : notify'[f] = notify[f]
  OBVIOUS
<1> QED
  BY <1>1, <1>3, <1>4, <1>5, <1>7, <1>8, <1>9, <1>10, OneMount

(* fs_info, fc, mfile and init as they stand, when a step leaves them.     *)
LEMMA SameMount ==
    ASSUME MountInv, NEW m \in Mounts
    PROVE  /\ mpc = [mpc EXCEPT ![m] = mpc[m]] /\ fc = [fc EXCEPT ![m] = fc[m]]
           /\ fs_info = [fs_info EXCEPT ![m] = fs_info[m]]
           /\ mfile = [mfile EXCEPT ![m] = mfile[m]] /\ init = [init EXCEPT ![m] = init[m]]
  BY DEF MountInv, MountType

-----------------------------------------------------------------------------
(* What the operators on a connection do to it.                            *)
LEMMA PutFields ==
    ASSUME NEW c \in Conn, c.count > 0
    PROVE  LET r == M!fuse_conn_put(c)
           IN  /\ r \in Conn /\ r.count = c.count - 1
               /\ c.count > 1 => r.alive = c.alive
               /\ c.count = 1 => ~r.alive
               /\ r.dev_count = c.dev_count /\ r.connected = c.connected
               /\ r.initialized = c.initialized /\ r.sb = c.sb
               /\ r.listed = c.listed /\ r.ctl = c.ctl
<1>1. c.count \in Nat
  BY DEF Conn
<1>2. CASE c.count > 1
  <2>1. c.count - 1 \in Nat
    BY <1>1, <1>2
  <2>2. M!fuse_conn_put(c) = [c EXCEPT !.count = c.count - 1]
    BY <1>2 DEF M!fuse_conn_put
  <2>3. ASSUME NEW n \in Nat
        PROVE  LET r == [c EXCEPT !.count = n]
               IN  /\ r \in Conn /\ r.count = n
                   /\ r.alive = c.alive
                   /\ r.dev_count = c.dev_count /\ r.connected = c.connected
                   /\ r.initialized = c.initialized /\ r.sb = c.sb
                   /\ r.listed = c.listed /\ r.ctl = c.ctl
    BY ZenonT(30) DEF Conn
  <2> QED
    BY <1>2, <2>1, <2>2, <2>3
<1>3. CASE ~(c.count > 1)
  <2>1. c.count = 1
    BY <1>1, <1>3
  <2>2. M!fuse_conn_put(c) = [c EXCEPT !.count = 0, !.alive = FALSE, !.destroy = "none"]
    BY <1>3 DEF M!fuse_conn_put
  <2>3. LET r == [c EXCEPT !.count = 0, !.alive = FALSE, !.destroy = "none"]
        IN  /\ r \in Conn /\ r.count = 0
            /\ r.alive = FALSE
            /\ r.dev_count = c.dev_count /\ r.connected = c.connected
            /\ r.initialized = c.initialized /\ r.sb = c.sb
            /\ r.listed = c.listed /\ r.ctl = c.ctl
    BY ZenonT(30) DEF Conn
  <2> QED
    BY <2>1, <2>2, <2>3
<1> QED
  BY <1>2, <1>3

(* process_init_reply, INIT failed.                                        *)
LEMMA InitErrorFields ==
    ASSUME NEW c \in Conn
    PROVE  LET r == M!init_error(c)
           IN  /\ r \in Conn /\ r.initialized = TRUE
               /\ r.alive = c.alive /\ r.count = c.count
               /\ r.dev_count = c.dev_count /\ r.connected = c.connected
               /\ r.sb = c.sb /\ r.listed = c.listed /\ r.ctl = c.ctl
  BY ZenonT(30) DEF Conn, M!init_error

(* process_init_reply, INIT succeeded.                                     *)
LEMMA ConnInitFields ==
    ASSUME NEW c \in Conn
    PROVE  LET r == [M!init_error(c) EXCEPT !.conn_init = TRUE]
           IN  /\ r \in Conn /\ r.initialized = TRUE
               /\ r.alive = c.alive /\ r.count = c.count
               /\ r.dev_count = c.dev_count /\ r.connected = c.connected
               /\ r.sb = c.sb /\ r.listed = c.listed /\ r.ctl = c.ctl
  BY ZenonT(30) DEF Conn, M!init_error

(* fuse_abort_conn.                                                        *)
LEMMA AbortFields ==
    ASSUME NEW c \in Conn, NEW x \in {"none", "alloc", "sent", "answered"}
    PROVE  LET r == [c EXCEPT !.connected = FALSE, !.initialized = TRUE, !.destroy = x]
           IN  /\ r \in Conn /\ r.connected = FALSE /\ r.initialized = TRUE
               /\ r.alive = c.alive /\ r.count = c.count
               /\ r.dev_count = c.dev_count /\ r.sb = c.sb /\ r.listed = c.listed
               /\ r.ctl = c.ctl
  BY ZenonT(30) DEF Conn

(* fuse_kill_sb_anon, fuse_kill_sb_blk.                                    *)
LEMMA SbFields ==
    ASSUME NEW c \in Conn
    PROVE  LET r == [c EXCEPT !.sb = FALSE]
           IN  /\ r \in Conn /\ r.sb = FALSE
               /\ r.alive = c.alive /\ r.count = c.count
               /\ r.dev_count = c.dev_count /\ r.connected = c.connected
               /\ r.initialized = c.initialized /\ r.listed = c.listed
               /\ r.ctl = c.ctl
  BY ZenonT(30) DEF Conn

(* fuse_send_destroy.                                                      *)
LEMMA DestroyFields ==
    ASSUME NEW c \in Conn, NEW x \in {"none", "alloc", "sent", "answered"}
    PROVE  LET r == [c EXCEPT !.destroy = x]
           IN  /\ r \in Conn 
               /\ r.alive = c.alive /\ r.count = c.count
               /\ r.dev_count = c.dev_count /\ r.connected = c.connected
               /\ r.initialized = c.initialized /\ r.sb = c.sb
               /\ r.listed = c.listed /\ r.ctl = c.ctl
  BY ZenonT(30) DEF Conn

(* fuse_fill_super adds the connection to the list.                        *)
LEMMA ListFields ==
    ASSUME NEW c \in Conn, NEW b \in BOOLEAN
    PROVE  LET r == [c EXCEPT !.listed = TRUE, !.ctl = b]
           IN  /\ r \in Conn /\ r.listed = TRUE /\ r.ctl = b
               /\ r.alive = c.alive /\ r.count = c.count
               /\ r.dev_count = c.dev_count /\ r.connected = c.connected
               /\ r.initialized = c.initialized /\ r.sb = c.sb
  BY ZenonT(30) DEF Conn

(* fuse_put_super takes it off.                                            *)
LEMMA UnlistFields ==
    ASSUME NEW c \in Conn
    PROVE  LET r == [c EXCEPT !.listed = FALSE, !.bdi = FALSE, !.ctl = FALSE]
           IN  /\ r \in Conn /\ r.listed = FALSE /\ r.ctl = FALSE
               /\ r.alive = c.alive /\ r.count = c.count
               /\ r.dev_count = c.dev_count /\ r.connected = c.connected
               /\ r.initialized = c.initialized /\ r.sb = c.sb
  BY ZenonT(30) DEF Conn

(* fuse_ctl_add_conn, fuse_ctl_remove_conn.                                *)
LEMMA CtlFields ==
    ASSUME NEW c \in Conn, NEW b \in BOOLEAN
    PROVE  LET r == [c EXCEPT !.ctl = b]
           IN  /\ r \in Conn /\ r.ctl = b
               /\ r.alive = c.alive /\ r.count = c.count
               /\ r.dev_count = c.dev_count /\ r.connected = c.connected
               /\ r.initialized = c.initialized /\ r.sb = c.sb
               /\ r.listed = c.listed
  BY ZenonT(30) DEF Conn

(* bdi_destroy.                                                            *)
LEMMA BdiFields ==
    ASSUME NEW c \in Conn
    PROVE  LET r == [c EXCEPT !.bdi = FALSE]
           IN  /\ r \in Conn 
               /\ r.alive = c.alive /\ r.count = c.count
               /\ r.dev_count = c.dev_count /\ r.connected = c.connected
               /\ r.initialized = c.initialized /\ r.sb = c.sb
               /\ r.listed = c.listed /\ r.ctl = c.ctl
  BY ZenonT(30) DEF Conn

(* fuse_conn_get.                                                          *)
LEMMA GetFields ==
    ASSUME NEW c \in Conn
    PROVE  LET r == M!Get(c)
           IN  /\ r \in Conn /\ r.count = c.count + 1
               /\ r.alive = c.alive /\ r.dev_count = c.dev_count
               /\ r.connected = c.connected /\ r.initialized = c.initialized
               /\ r.sb = c.sb /\ r.listed = c.listed /\ r.ctl = c.ctl
<1>1. c.count + 1 \in Nat
  BY DEF Conn
<1>2. ASSUME NEW n \in Nat
      PROVE  LET r == [c EXCEPT !.count = n]
             IN  /\ r \in Conn /\ r.count = n
                 /\ r.alive = c.alive /\ r.dev_count = c.dev_count
                 /\ r.connected = c.connected /\ r.initialized = c.initialized
                 /\ r.sb = c.sb /\ r.listed = c.listed /\ r.ctl = c.ctl
  BY ZenonT(30) DEF Conn
<1> QED
  BY <1>1, <1>2 DEF M!Get

(* fuse_device_clone.                                                      *)
LEMMA CloneFields ==
    ASSUME NEW c \in Conn
    PROVE  LET r == [M!Get(c) EXCEPT !.dev_count = c.dev_count + 1]
           IN  /\ r \in Conn /\ r.count = c.count + 1 /\ r.dev_count = c.dev_count + 1
               /\ r.alive = c.alive /\ r.connected = c.connected
               /\ r.initialized = c.initialized /\ r.sb = c.sb
               /\ r.listed = c.listed /\ r.ctl = c.ctl
<1>1. c.count + 1 \in Nat /\ c.dev_count + 1 \in Nat
  BY DEF Conn
<1>2. ASSUME NEW n \in Nat, NEW d \in Nat
      PROVE  LET r == [[c EXCEPT !.count = n] EXCEPT !.dev_count = d]
             IN  /\ r \in Conn /\ r.count = n /\ r.dev_count = d
                 /\ r.alive = c.alive /\ r.connected = c.connected
                 /\ r.initialized = c.initialized /\ r.sb = c.sb
                 /\ r.listed = c.listed /\ r.ctl = c.ctl
  BY ZenonT(30) DEF Conn
<1>4. [M!Get(c) EXCEPT !.dev_count = c.dev_count + 1]
      = [[c EXCEPT !.count = c.count + 1] EXCEPT !.dev_count = c.dev_count + 1]
  BY DEF M!Get
<1>5. LET r == [[c EXCEPT !.count = c.count + 1] EXCEPT !.dev_count = c.dev_count + 1]
      IN  /\ r \in Conn /\ r.count = c.count + 1 /\ r.dev_count = c.dev_count + 1
          /\ r.alive = c.alive /\ r.connected = c.connected
          /\ r.initialized = c.initialized /\ r.sb = c.sb /\ r.listed = c.listed
          /\ r.ctl = c.ctl
  <2> DEFINE n == c.count + 1
             d == c.dev_count + 1
  <2>1. n \in Nat /\ d \in Nat
    BY <1>1
  <2> HIDE DEF n, d
  <2>2. LET r == [[c EXCEPT !.count = n] EXCEPT !.dev_count = d]
        IN  /\ r \in Conn /\ r.count = n /\ r.dev_count = d
            /\ r.alive = c.alive /\ r.connected = c.connected
            /\ r.initialized = c.initialized /\ r.sb = c.sb /\ r.listed = c.listed
            /\ r.ctl = c.ctl
    BY <1>2, <2>1
  <2> QED
    BY <2>2, Zenon DEF n, d
<1> QED
  BY <1>4, <1>5, Zenon

(* fuse_dev_release, up to fuse_dev_free.                                  *)
ReleaseConn(c, b, i, x) ==
    [c EXCEPT !.dev_count = c.dev_count - 1, !.connected = b, !.initialized = i,
              !.destroy = x]

LEMMA ReleaseFields ==
    ASSUME NEW c \in Conn, c.dev_count > 0, NEW b \in BOOLEAN, NEW i \in BOOLEAN,
           NEW x \in {"none", "alloc", "sent", "answered"}
    PROVE  LET r == ReleaseConn(c, b, i, x)
           IN  /\ r \in Conn /\ r.dev_count = c.dev_count - 1 /\ r.connected = b
               /\ r.initialized = i
               /\ r.alive = c.alive /\ r.count = c.count /\ r.sb = c.sb
               /\ r.listed = c.listed /\ r.ctl = c.ctl
<1>1. c.dev_count - 1 \in Nat
  BY DEF Conn
<1>2. ASSUME NEW n \in Nat
      PROVE  LET r == [c EXCEPT !.dev_count = n, !.connected = b, !.initialized = i,
                                !.destroy = x]
             IN  /\ r \in Conn /\ r.dev_count = n /\ r.connected = b
                 /\ r.initialized = i
                 /\ r.alive = c.alive /\ r.count = c.count /\ r.sb = c.sb
                 /\ r.listed = c.listed /\ r.ctl = c.ctl
  BY ZenonT(30) DEF Conn
<1> QED
  BY <1>1, <1>2 DEF ReleaseConn

(* The end of a fuse_fill_super that fails after the device was allocated. *)
LEMMA UnwindFields ==
    ASSUME NEW c \in Conn, c.count = 2
    PROVE  LET r == M!unwind(c)
           IN  /\ r \in Conn /\ r.count = 0 /\ r.alive = FALSE
               /\ r.dev_count = c.dev_count /\ r.connected = c.connected
               /\ r.initialized = c.initialized /\ r.sb = c.sb
               /\ r.listed = c.listed /\ r.ctl = c.ctl
<1> DEFINE p == M!fuse_conn_put(c)
           q == [p EXCEPT !.bdi = FALSE]
<1>1. p \in Conn /\ p.count = 1 /\ p.dev_count = c.dev_count /\ p.connected = c.connected
      /\ p.initialized = c.initialized /\ p.sb = c.sb /\ p.listed = c.listed
      /\ p.ctl = c.ctl
  BY PutFields
<1>2. q \in Conn /\ q.count = p.count /\ q.dev_count = p.dev_count
      /\ q.connected = p.connected /\ q.initialized = p.initialized /\ q.sb = p.sb
      /\ q.listed = p.listed /\ q.ctl = p.ctl
  BY <1>1, BdiFields
<1> HIDE DEF p
<1>3. M!unwind(c) = M!fuse_conn_put(q)
  BY DEF p, M!unwind
<1>4. M!fuse_conn_put(q) = [q EXCEPT !.count = 0, !.alive = FALSE, !.destroy = "none"]
  BY <1>1, <1>2 DEF M!fuse_conn_put
<1> HIDE DEF q
<1>5. LET r == [q EXCEPT !.count = 0, !.alive = FALSE, !.destroy = "none"]
      IN  /\ r \in Conn /\ r.count = 0 /\ r.alive = FALSE
          /\ r.dev_count = q.dev_count /\ r.connected = q.connected
          /\ r.initialized = q.initialized /\ r.sb = q.sb
          /\ r.listed = q.listed /\ r.ctl = q.ctl
  BY <1>2, ZenonT(30) DEF Conn
<1> QED
  BY <1>1, <1>2, <1>3, <1>4, <1>5

(* fuse_conn_init, and the connection that fuse_fill_super sets up.        *)
LEMMA NewFields ==
    /\ M!NoConn \in Conn /\ M!NoConn.count = 0 /\ ~M!NoConn.alive
    /\ ~M!NoConn.listed /\ ~M!NoConn.ctl
    /\ M!fuse_conn_init \in Conn /\ M!fuse_conn_init.count = 1
    /\ ~M!fuse_conn_init.listed /\ ~M!fuse_conn_init.ctl
    /\ M!NewConn \in Conn /\ M!NewConn.count = 2 /\ M!NewConn.alive /\ M!NewConn.sb
    /\ M!NewConn.dev_count = 1 /\ ~M!NewConn.listed /\ ~M!NewConn.ctl
<1>1. M!NoConn \in Conn /\ M!NoConn.count = 0 /\ ~M!NoConn.alive
      /\ ~M!NoConn.listed /\ ~M!NoConn.ctl
  BY DEF Conn, M!NoConn
<1>2. ASSUME NEW c \in Conn, NEW one \in Nat
      PROVE  LET r == [c EXCEPT !.alive = TRUE, !.count = one, !.dev_count = one,
                                !.connected = TRUE]
             IN  r \in Conn /\ r.alive /\ r.count = one /\ r.dev_count = one
                 /\ r.listed = c.listed /\ r.ctl = c.ctl
  BY ZenonT(30) DEF Conn
<1>3. LET r == M!fuse_conn_init
      IN  r \in Conn /\ r.alive /\ r.count = 1 /\ r.dev_count = 1 /\ ~r.listed /\ ~r.ctl
  <2>1. 1 \in Nat
    OBVIOUS
  <2>2. LET r == [M!NoConn EXCEPT !.alive = TRUE, !.count = 1, !.dev_count = 1,
                                  !.connected = TRUE]
        IN  r \in Conn /\ r.alive /\ r.count = 1 /\ r.dev_count = 1
            /\ r.listed = M!NoConn.listed /\ r.ctl = M!NoConn.ctl
    BY <1>1, <1>2, <2>1, Zenon
  <2> QED
    BY <1>1, <2>2, Zenon DEF M!fuse_conn_init
<1>4. LET r == M!Get(M!fuse_conn_init)
      IN  r \in Conn /\ r.alive /\ r.count = 2 /\ r.dev_count = 1 /\ ~r.listed /\ ~r.ctl
  BY <1>3, GetFields
<1>5. ASSUME NEW c \in Conn
      PROVE  LET r == [c EXCEPT !.sb = TRUE, !.bdi = TRUE]
             IN  r \in Conn /\ r.sb /\ r.alive = c.alive /\ r.count = c.count
                 /\ r.dev_count = c.dev_count /\ r.listed = c.listed /\ r.ctl = c.ctl
  BY ZenonT(30) DEF Conn
<1>6. LET r == M!NewConn
      IN  r \in Conn /\ r.sb /\ r.alive /\ r.count = 2 /\ r.dev_count = 1 /\ ~r.listed
          /\ ~r.ctl
  BY <1>4, <1>5 DEF M!NewConn
<1> QED
  BY <1>1, <1>3, <1>6

-----------------------------------------------------------------------------
(* The steps of a mount and an unmount.                                    *)
LEMMA LoadedNotEmpty == M!Loaded => registered # {}
<1>1. M!Stages[1] \in M!Done(8)
  BY DEF M!Done
<1> QED
  BY <1>1 DEF M!Loaded

(* fuse_fill_super, up to fget.                                            *)
LEMMA MountStarts ==
    ASSUME MountInv, NEW m \in Mounts, M!fuse_mount(m)
    PROVE  MountInv'
<1>1. CASE mpc' = [mpc EXCEPT ![m] = "failed"] /\ UNCHANGED mfile
  <2>1. /\ mpc' = [mpc EXCEPT ![m] = "failed"] /\ fc' = [fc EXCEPT ![m] = fc[m]]
        /\ fs_info' = [fs_info EXCEPT ![m] = fs_info[m]] /\ mfile' = [mfile EXCEPT ![m] = mfile[m]]
        /\ init' = [init EXCEPT ![m] = init[m]]
        /\ UNCHANGED <<uopen, priv, notify, ctlsb, user, registered>>
    BY <1>1, SameMount DEF M!fuse_mount
  <2>2. ASSUME NEW d \in Nat, NEW k \in Nat,
               MountOk(mpc[m], fc[m], fs_info[m], mfile[m], init[m], d, k, ctlsb)
        PROVE  MountOk("failed", fc[m], fs_info[m], mfile[m], init[m], d, k,
                       ctlsb)
    BY <2>2 DEF MountOk, Own, Phases, Attached, Mounting, Unmounting, M!fuse_mount
  <2>3. mpc[m] \in Mounting /\ "failed" \notin Mounting => \A f \in Files : notify[f] # m
    BY DEF Mounting, M!fuse_mount
  <2>4. registered = {} => "failed" \in {"idle", "gone"}
    BY LoadedNotEmpty DEF M!fuse_mount
  <2> QED
    BY <2>1, <2>2, <2>3, <2>4, OnlyMount
<1>2. ASSUME NEW h \in Files, mfile' = [mfile EXCEPT ![m] = h],
             mpc' = [mpc EXCEPT ![m] = "setup"]
      PROVE  MountInv'
  <2>1. /\ mpc' = [mpc EXCEPT ![m] = "setup"] /\ fc' = [fc EXCEPT ![m] = fc[m]]
        /\ fs_info' = [fs_info EXCEPT ![m] = fs_info[m]] /\ mfile' = [mfile EXCEPT ![m] = h]
        /\ init' = [init EXCEPT ![m] = init[m]]
        /\ UNCHANGED <<uopen, priv, notify, ctlsb, user, registered>>
    BY <1>2, SameMount DEF M!fuse_mount
  <2>2. ASSUME NEW d \in Nat, NEW k \in Nat,
               MountOk(mpc[m], fc[m], fs_info[m], mfile[m], init[m], d, k, ctlsb)
        PROVE  MountOk("setup", fc[m], fs_info[m], h, init[m], d, k,
                       ctlsb)
    BY <2>2 DEF MountOk, Own, Phases, Attached, Mounting, Unmounting, M!fuse_mount
  <2>3. mpc[m] \in Mounting /\ "setup" \notin Mounting => \A f \in Files : notify[f] # m
    BY DEF Mounting, M!fuse_mount
  <2>4. registered = {} => "setup" \in {"idle", "gone"}
    BY LoadedNotEmpty DEF M!fuse_mount
  <2> QED
    BY <2>1, <2>2, <2>3, <2>4, OnlyMount
<1> QED
  BY <1>1, <1>2 DEF M!fuse_mount

(* fuse_fill_super, err_unlock.                                            *)
LEMMA FillUnlock ==
    ASSUME MountInv, NEW m \in Mounts, M!fill_super_unlock(m)
    PROVE  MountInv'
<1>1. /\ mpc' = [mpc EXCEPT ![m] = "failed"] /\ fc' = [fc EXCEPT ![m] = M!unwind(fc[m])]
      /\ fs_info' = [fs_info EXCEPT ![m] = fs_info[m]] /\ mfile' = [mfile EXCEPT ![m] = Nil]
      /\ init' = [init EXCEPT ![m] = init[m]]
      /\ UNCHANGED <<uopen, priv, notify, ctlsb, user, registered>>
  BY SameMount DEF M!fill_super_unlock
<1>2. ASSUME NEW d \in Nat, NEW k \in Nat,
             MountOk(mpc[m], fc[m], fs_info[m], mfile[m], init[m], d, k, ctlsb)
      PROVE  MountOk("failed", M!unwind(fc[m]), fs_info[m], Nil, init[m], d, k,
                     ctlsb)
  <2>1. fc[m] \in Conn /\ fc[m].count \in Nat /\ fc[m].dev_count \in Nat
    BY <1>2 DEF MountOk, Conn
  <2>0. fc[m].count = 2 /\ d = 0 /\ k = 0
    BY <1>2 DEF MountOk, Own, Phases, Attached, Mounting, Unmounting, M!fill_super_unlock
  <2>2. LET r == M!unwind(fc[m])
        IN
            /\ r \in Conn /\ r.alive = FALSE /\ r.count = 0
            /\ r.dev_count = fc[m].dev_count /\ r.connected = fc[m].connected
            /\ r.initialized = fc[m].initialized /\ r.sb = fc[m].sb
            /\ r.listed = fc[m].listed /\ r.ctl = fc[m].ctl
    BY <2>1, <2>0, UnwindFields
  <2> DEFINE r == M!unwind(fc[m])
  <2> HIDE DEF r
  <2>3.
        /\ r \in Conn /\ r.alive = FALSE /\ r.count = 0
        /\ r.dev_count = fc[m].dev_count /\ r.connected = fc[m].connected
        /\ r.initialized = fc[m].initialized /\ r.sb = fc[m].sb
        /\ r.listed = fc[m].listed /\ r.ctl = fc[m].ctl
    BY <2>2 DEF r
  <2>4. MountOk("failed", r, fs_info[m], Nil, init[m], d, k, ctlsb)
    BY <1>2, <2>0, <2>1, <2>3 DEF MountOk, Own, Phases, Attached, Mounting, Unmounting, M!fill_super_unlock
  <2> QED
    BY <2>4 DEF r
<1>3. mpc[m] \in Mounting /\ "failed" \notin Mounting => \A f \in Files : notify[f] # m
  BY SMT DEF Mounting, M!fill_super_unlock
<1>4. registered = {} => "failed" \in {"idle", "gone"}
  BY SMT DEF MountInv, ModuleInv, M!fill_super_unlock
<1> QED
  BY <1>1, <1>2, <1>3, <1>4, OnlyMount

(* fuse_fill_super, fput.                                                  *)
LEMMA FillFput ==
    ASSUME MountInv, NEW m \in Mounts, M!fill_super_fput(m)
    PROVE  MountInv'
<1>1. /\ mpc' = [mpc EXCEPT ![m] = "send_init"] /\ fc' = [fc EXCEPT ![m] = fc[m]]
      /\ fs_info' = [fs_info EXCEPT ![m] = fs_info[m]] /\ mfile' = [mfile EXCEPT ![m] = Nil]
      /\ init' = [init EXCEPT ![m] = init[m]]
      /\ UNCHANGED <<uopen, priv, notify, ctlsb, user, registered>>
  BY SameMount DEF M!fill_super_fput
<1>2. ASSUME NEW d \in Nat, NEW k \in Nat,
             MountOk(mpc[m], fc[m], fs_info[m], mfile[m], init[m], d, k, ctlsb)
      PROVE  MountOk("send_init", fc[m], fs_info[m], Nil, init[m], d, k,
                     ctlsb)
  BY <1>2 DEF MountOk, Own, Phases, Attached, Mounting, Unmounting, M!fill_super_fput
<1>3. mpc[m] \in Mounting /\ "send_init" \notin Mounting => \A f \in Files : notify[f] # m
  BY SMT DEF Mounting, M!fill_super_fput
<1>4. registered = {} => "send_init" \in {"idle", "gone"}
  BY SMT DEF MountInv, ModuleInv, M!fill_super_fput
<1> QED
  BY <1>1, <1>2, <1>3, <1>4, OnlyMount

(* fuse_send_init.                                                         *)
LEMMA SendInit ==
    ASSUME MountInv, NEW m \in Mounts, M!fuse_send_init(m)
    PROVE  MountInv'
<1>1. CASE fc[m].connected
  <2>1. /\ mpc' = [mpc EXCEPT ![m] = "mounted"] /\ fc' = [fc EXCEPT ![m] = fc[m]]
        /\ fs_info' = [fs_info EXCEPT ![m] = fs_info[m]] /\ mfile' = [mfile EXCEPT ![m] = mfile[m]]
        /\ init' = [init EXCEPT ![m] = "queued"]
        /\ UNCHANGED <<uopen, priv, notify, ctlsb, user, registered>>
    BY <1>1, SameMount DEF M!fuse_send_init
  <2>2. ASSUME NEW d \in Nat, NEW k \in Nat,
               MountOk(mpc[m], fc[m], fs_info[m], mfile[m], init[m], d, k, ctlsb)
        PROVE  MountOk("mounted", fc[m], fs_info[m], mfile[m], "queued", d, k,
                       ctlsb)
    BY <2>2 DEF MountOk, Own, Phases, Attached, Mounting, Unmounting, M!fuse_send_init
  <2>3. mpc[m] \in Mounting /\ "mounted" \notin Mounting => \A f \in Files : notify[f] # m
    BY SMT DEF Mounting, M!fuse_send_init
  <2>4. registered = {} => "mounted" \in {"idle", "gone"}
    BY SMT DEF MountInv, ModuleInv, M!fuse_send_init
  <2> QED
    BY <2>1, <2>2, <2>3, <2>4, OnlyMount
<1>2. CASE ~fc[m].connected
  <2>1. /\ mpc' = [mpc EXCEPT ![m] = "mounted"] /\ fc' = [fc EXCEPT ![m] = M!init_error(fc[m])]
        /\ fs_info' = [fs_info EXCEPT ![m] = fs_info[m]] /\ mfile' = [mfile EXCEPT ![m] = mfile[m]]
        /\ init' = [init EXCEPT ![m] = "ended"]
        /\ UNCHANGED <<uopen, priv, notify, ctlsb, user, registered>>
    BY <1>2, SameMount DEF M!fuse_send_init
  <2>2. ASSUME NEW d \in Nat, NEW k \in Nat,
               MountOk(mpc[m], fc[m], fs_info[m], mfile[m], init[m], d, k, ctlsb)
        PROVE  MountOk("mounted", M!init_error(fc[m]), fs_info[m], mfile[m], "ended", d, k,
                       ctlsb)
    <3>1. fc[m] \in Conn /\ fc[m].count \in Nat /\ fc[m].dev_count \in Nat
      BY <2>2 DEF MountOk, Conn
    <3>2. LET r == M!init_error(fc[m])
          IN
              /\ r \in Conn /\ r.alive = fc[m].alive /\ r.count = fc[m].count
              /\ r.dev_count = fc[m].dev_count /\ r.connected = fc[m].connected
              /\ r.initialized = TRUE /\ r.sb = fc[m].sb /\ r.listed = fc[m].listed
              /\ r.ctl = fc[m].ctl
      BY <3>1, InitErrorFields
    <3> DEFINE r == M!init_error(fc[m])
    <3> HIDE DEF r
    <3>3.
          /\ r \in Conn /\ r.alive = fc[m].alive /\ r.count = fc[m].count
          /\ r.dev_count = fc[m].dev_count /\ r.connected = fc[m].connected
          /\ r.initialized = TRUE /\ r.sb = fc[m].sb /\ r.listed = fc[m].listed
          /\ r.ctl = fc[m].ctl
      BY <3>2 DEF r
    <3>4. MountOk("mounted", r, fs_info[m], mfile[m], "ended", d, k, ctlsb)
      BY <2>2, <3>1, <3>3 DEF MountOk, Own, Phases, Attached, Mounting, Unmounting, M!fuse_send_init
    <3> QED
      BY <3>4 DEF r
  <2>3. mpc[m] \in Mounting /\ "mounted" \notin Mounting => \A f \in Files : notify[f] # m
    BY SMT DEF Mounting, M!fuse_send_init
  <2>4. registered = {} => "mounted" \in {"idle", "gone"}
    BY SMT DEF MountInv, ModuleInv, M!fuse_send_init
  <2> QED
    BY <2>1, <2>2, <2>3, <2>4, OnlyMount
<1> QED
  BY <1>1, <1>2

(* fuse_abort_conn: only connected and initialized change, and INIT ends.  *)
LEMMA AbortEffect ==
    ASSUME MountInv, NEW m \in Mounts, M!fuse_abort_conn(m)
    PROVE  \E c \in Conn : \E i \in {"none", "queued", "read", "ended"} :
             /\ fc' = [fc EXCEPT ![m] = c] /\ init' = [init EXCEPT ![m] = i]
             /\ c.alive = fc[m].alive /\ c.count = fc[m].count
             /\ c.dev_count = fc[m].dev_count /\ c.sb = fc[m].sb
             /\ c.listed = fc[m].listed /\ c.ctl = fc[m].ctl
             /\ c.connected => fc[m].connected
             /\ c.initialized \/ (c.initialized = fc[m].initialized /\ i = init[m])
<1>1. fc[m] \in Conn /\ init[m] \in {"none", "queued", "read", "ended"}
  BY DEF MountInv, Mount, MountOk
<1>2. CASE ~fc[m].connected
  BY <1>1, <1>2, SameMount DEF M!fuse_abort_conn
<1>3. CASE fc[m].connected
  <2> DEFINE x == IF fc[m].destroy = "sent" THEN "answered" ELSE fc[m].destroy
             a == [fc[m] EXCEPT !.connected = FALSE, !.initialized = TRUE, !.destroy = x]
             c == IF M!InFlight(m) THEN M!init_error(a) ELSE a
             i == IF M!InFlight(m) THEN "ended" ELSE init[m]
  <2>1. x \in {"none", "alloc", "sent", "answered"}
    BY <1>1 DEF Conn
  <2>2. /\ a \in Conn /\ a.connected = FALSE /\ a.initialized = TRUE
        /\ a.alive = fc[m].alive /\ a.count = fc[m].count
        /\ a.dev_count = fc[m].dev_count /\ a.sb = fc[m].sb
        /\ a.listed = fc[m].listed /\ a.ctl = fc[m].ctl
    <3> HIDE DEF x
    <3> QED
      BY <1>1, <2>1, AbortFields
  <2>3. fc' = [fc EXCEPT ![m] = c] /\ init' = [init EXCEPT ![m] = i]
    <3>1. init' = [init EXCEPT ![m] = i]
      BY <1>3 DEF M!fuse_abort_conn
    <3>2. fc' = [fc EXCEPT ![m] = IF M!InFlight(m)
                                  THEN M!init_error([fc[m] EXCEPT !.connected = FALSE,
                                         !.initialized = TRUE,
                                         !.destroy = IF fc[m].destroy = "sent" THEN "answered"
                                                     ELSE fc[m].destroy])
                                  ELSE [fc[m] EXCEPT !.connected = FALSE,
                                         !.initialized = TRUE,
                                         !.destroy = IF fc[m].destroy = "sent" THEN "answered"
                                                     ELSE fc[m].destroy]]
      BY <1>3 DEF M!fuse_abort_conn
    <3> QED
      BY <3>1, <3>2
  <2> HIDE DEF a
  <2>4. /\ c \in Conn /\ c.connected = FALSE /\ c.initialized = TRUE
        /\ c.alive = a.alive /\ c.count = a.count
        /\ c.dev_count = a.dev_count /\ c.sb = a.sb
        /\ c.listed = a.listed /\ c.ctl = a.ctl
    <3>1. LET r == M!init_error(a)
          IN  /\ r \in Conn /\ r.connected = FALSE /\ r.initialized = TRUE
              /\ r.alive = a.alive /\ r.count = a.count
              /\ r.dev_count = a.dev_count /\ r.sb = a.sb
              /\ r.listed = a.listed /\ r.ctl = a.ctl
      BY <2>2, InitErrorFields
    <3> QED
      BY <2>2, <3>1
  <2>5. i \in {"none", "queued", "read", "ended"}
    BY <1>1
  <2> HIDE DEF c, i
  <2> QED
    BY <2>2, <2>3, <2>4, <2>5
<1> QED
  BY <1>2, <1>3

(* An abort, and the step of an unmount that may come with it.             *)
LEMMA AbortStep ==
    ASSUME MountInv, NEW m \in Mounts, M!fuse_abort_conn(m),
           mpc' = mpc \/ (mpc[m] = "abort" /\ mpc' = [mpc EXCEPT ![m] = "remove"]),
           UNCHANGED <<fs_info, mfile, uopen, priv, notify, ctlsb, user, registered>>
    PROVE  MountInv'
<1>0. PICK p : /\ mpc' = [mpc EXCEPT ![m] = p]
               /\ p = mpc[m] \/ (mpc[m] = "abort" /\ p = "remove")
  <2>1. CASE mpc' = mpc
    <3>1. mpc' = [mpc EXCEPT ![m] = mpc[m]]
      BY <2>1, SameMount
    <3> WITNESS mpc[m]
    <3> QED
      BY <3>1
  <2>2. CASE mpc[m] = "abort" /\ mpc' = [mpc EXCEPT ![m] = "remove"]
    BY <2>2, Zenon
  <2> QED
    BY <2>1, <2>2
<1>1. PICK c \in Conn : \E i \in {"none", "queued", "read", "ended"} :
             /\ fc' = [fc EXCEPT ![m] = c] /\ init' = [init EXCEPT ![m] = i]
             /\ c.alive = fc[m].alive /\ c.count = fc[m].count
             /\ c.dev_count = fc[m].dev_count /\ c.sb = fc[m].sb
             /\ c.listed = fc[m].listed /\ c.ctl = fc[m].ctl
             /\ c.connected => fc[m].connected
             /\ c.initialized \/ (c.initialized = fc[m].initialized /\ i = init[m])
  BY AbortEffect
<1>2. PICK i \in {"none", "queued", "read", "ended"} :
             /\ fc' = [fc EXCEPT ![m] = c] /\ init' = [init EXCEPT ![m] = i]
             /\ c.alive = fc[m].alive /\ c.count = fc[m].count
             /\ c.dev_count = fc[m].dev_count /\ c.sb = fc[m].sb
             /\ c.listed = fc[m].listed /\ c.ctl = fc[m].ctl
             /\ c.connected => fc[m].connected
             /\ c.initialized \/ (c.initialized = fc[m].initialized /\ i = init[m])
  BY <1>1
<1>3. /\ mpc' = [mpc EXCEPT ![m] = p] /\ fc' = [fc EXCEPT ![m] = c]
      /\ fs_info' = [fs_info EXCEPT ![m] = fs_info[m]]
      /\ mfile' = [mfile EXCEPT ![m] = mfile[m]] /\ init' = [init EXCEPT ![m] = i]
      /\ UNCHANGED <<uopen, priv, notify, ctlsb, user, registered>>
  BY <1>0, <1>2, SameMount
<1>4. ASSUME NEW d \in Nat, NEW k \in Nat,
             MountOk(mpc[m], fc[m], fs_info[m], mfile[m], init[m], d, k, ctlsb)
      PROVE  MountOk(p, c, fs_info[m], mfile[m], i, d, k, ctlsb)
  BY <1>0, <1>2, <1>4 DEF MountOk, Own, Phases, Attached, Mounting, Unmounting
<1>5. mpc[m] \in Mounting /\ p \notin Mounting => \A f \in Files : notify[f] # m
  BY <1>0 DEF Mounting
<1>6. registered = {} => p \in {"idle", "gone"}
  BY <1>0 DEF MountInv, ModuleInv
<1> QED
  BY <1>3, <1>4, <1>5, <1>6, OnlyMount

LEMMA UmountBegin ==
    ASSUME MountInv, NEW m \in Mounts, M!fuse_umount_begin(m)
    PROVE  MountInv'
<1>1. /\ M!fuse_abort_conn(m) /\ mpc' = mpc
      /\ UNCHANGED <<fs_info, mfile, uopen, priv, notify, ctlsb, user, registered>>
  BY DEF M!fuse_umount_begin
<1> QED
  BY <1>1, AbortStep

LEMMA PutSuperAbort ==
    ASSUME MountInv, NEW m \in Mounts, M!put_super_abort(m)
    PROVE  MountInv'
  BY AbortStep DEF M!put_super_abort

LEMMA AbortWrite ==
    ASSUME MountInv, NEW u \in Users, M!fuse_conn_abort_write(u)
    PROVE  MountInv'
<1>1. user[u] \in Mounts
  BY DEF M!fuse_conn_abort_write, MountInv, FilesType
<1>2. /\ M!fuse_abort_conn(user[u]) /\ mpc' = mpc
      /\ UNCHANGED <<fs_info, mfile, uopen, priv, notify, ctlsb, user, registered>>
  BY DEF M!fuse_conn_abort_write
<1> QED
  BY <1>1, <1>2, AbortStep

(* fuse_kill_sb_anon, fuse_kill_sb_blk.                                    *)
LEMMA KillSb ==
    ASSUME MountInv, NEW m \in Mounts, M!fuse_kill_sb(m)
    PROVE  MountInv'
<1> DEFINE q == IF mpc[m] = "mounted" THEN "put_super" ELSE "gone"
<1>3. MountOk(mpc[m], fc[m], fs_info[m], mfile[m], init[m], Devices(m), CtlUsers(m), ctlsb)
  BY DEF MountInv, Mount
<1>1. CASE fs_info[m]
  <2>1. /\ mpc' = [mpc EXCEPT ![m] = q] /\ fc' = [fc EXCEPT ![m] = [fc[m] EXCEPT !.sb = FALSE]]
        /\ fs_info' = [fs_info EXCEPT ![m] = fs_info[m]] /\ mfile' = [mfile EXCEPT ![m] = mfile[m]]
        /\ init' = [init EXCEPT ![m] = init[m]]
        /\ UNCHANGED <<uopen, priv, notify, ctlsb, user, registered>>
    BY <1>1, SameMount DEF M!fuse_kill_sb
  <2>2. ASSUME NEW d \in Nat, NEW k \in Nat,
               MountOk(mpc[m], fc[m], fs_info[m], mfile[m], init[m], d, k, ctlsb)
        PROVE  MountOk(q, [fc[m] EXCEPT !.sb = FALSE], fs_info[m], mfile[m], init[m], d, k,
                       ctlsb)
    <3>1. fc[m] \in Conn /\ fc[m].count \in Nat /\ fc[m].dev_count \in Nat
      BY <2>2 DEF MountOk, Conn
    <3>2. LET r == [fc[m] EXCEPT !.sb = FALSE]
          IN
              /\ r \in Conn /\ r.alive = fc[m].alive /\ r.count = fc[m].count
              /\ r.dev_count = fc[m].dev_count /\ r.connected = fc[m].connected
              /\ r.initialized = fc[m].initialized /\ r.sb = FALSE
              /\ r.listed = fc[m].listed /\ r.ctl = fc[m].ctl
      BY <3>1, SbFields
    <3> DEFINE r == [fc[m] EXCEPT !.sb = FALSE]
    <3> HIDE DEF r
    <3>3.
          /\ r \in Conn /\ r.alive = fc[m].alive /\ r.count = fc[m].count
          /\ r.dev_count = fc[m].dev_count /\ r.connected = fc[m].connected
          /\ r.initialized = fc[m].initialized /\ r.sb = FALSE
          /\ r.listed = fc[m].listed /\ r.ctl = fc[m].ctl
      BY <3>2 DEF r
    <3>4. MountOk(q, r, fs_info[m], mfile[m], init[m], d, k, ctlsb)
      BY <2>2, <3>1, <3>3 DEF MountOk, Own, Phases, Attached, Mounting, Unmounting, M!fuse_kill_sb
    <3> QED
      BY <3>4 DEF r
  <2>3. mpc[m] \in Mounting /\ q \notin Mounting => \A f \in Files : notify[f] # m
    BY <1>1 DEF M!fuse_kill_sb
  <2>4. registered = {} => q \in {"idle", "gone"}
    BY DEF MountInv, ModuleInv, M!fuse_kill_sb
  <2> QED
    BY <2>1, <2>2, <2>3, <2>4, OnlyMount
<1>2. CASE ~fs_info[m]
  <2>1. /\ mpc' = [mpc EXCEPT ![m] = q] /\ fc' = [fc EXCEPT ![m] = fc[m]]
        /\ fs_info' = [fs_info EXCEPT ![m] = fs_info[m]] /\ mfile' = [mfile EXCEPT ![m] = mfile[m]]
        /\ init' = [init EXCEPT ![m] = init[m]]
        /\ UNCHANGED <<uopen, priv, notify, ctlsb, user, registered>>
    BY <1>2, SameMount DEF M!fuse_kill_sb
  <2>2. ASSUME NEW d \in Nat, NEW k \in Nat,
               MountOk(mpc[m], fc[m], fs_info[m], mfile[m], init[m], d, k, ctlsb)
        PROVE  MountOk(q, fc[m], fs_info[m], mfile[m], init[m], d, k,
                       ctlsb)
    BY <1>2, <2>2 DEF MountOk, Own, Phases, Attached, Mounting, Unmounting, M!fuse_kill_sb
  <2>3. mpc[m] \in Mounting /\ q \notin Mounting => \A f \in Files : notify[f] # m
    BY <1>2, <1>3 DEF Mounting, MountOk
  <2>4. registered = {} => q \in {"idle", "gone"}
    BY DEF MountInv, ModuleInv, M!fuse_kill_sb
  <2> QED
    BY <2>1, <2>2, <2>3, <2>4, OnlyMount
<1> QED
  BY <1>1, <1>2

(* fuse_send_destroy.                                                      *)
LEMMA SendDestroy ==
    ASSUME MountInv, NEW m \in Mounts, M!fuse_send_destroy(m)
    PROVE  MountInv'
<1> DEFINE x == IF fc[m].connected THEN "sent" ELSE "answered"
<1>0. x \in {"none", "alloc", "sent", "answered"}
  OBVIOUS
<1>1. CASE fc[m].destroy = "alloc" /\ fc[m].conn_init
  <2>1. /\ mpc' = [mpc EXCEPT ![m] = "destroy"] /\ fc' = [fc EXCEPT ![m] = [fc[m] EXCEPT !.destroy = x]]
        /\ fs_info' = [fs_info EXCEPT ![m] = fs_info[m]] /\ mfile' = [mfile EXCEPT ![m] = mfile[m]]
        /\ init' = [init EXCEPT ![m] = init[m]]
        /\ UNCHANGED <<uopen, priv, notify, ctlsb, user, registered>>
    BY <1>1, SameMount DEF M!fuse_send_destroy
  <2>2. ASSUME NEW d \in Nat, NEW k \in Nat,
               MountOk(mpc[m], fc[m], fs_info[m], mfile[m], init[m], d, k, ctlsb)
        PROVE  MountOk("destroy", [fc[m] EXCEPT !.destroy = x], fs_info[m], mfile[m], init[m], d, k,
                       ctlsb)
    <3>1. fc[m] \in Conn /\ fc[m].count \in Nat /\ fc[m].dev_count \in Nat
      BY <2>2 DEF MountOk, Conn
    <3>2. LET r == [fc[m] EXCEPT !.destroy = x]
          IN
              /\ r \in Conn /\ r.alive = fc[m].alive /\ r.count = fc[m].count
              /\ r.dev_count = fc[m].dev_count /\ r.connected = fc[m].connected
              /\ r.initialized = fc[m].initialized /\ r.sb = fc[m].sb
              /\ r.listed = fc[m].listed /\ r.ctl = fc[m].ctl
      BY <1>0, <3>1, DestroyFields
    <3> DEFINE r == [fc[m] EXCEPT !.destroy = x]
    <3> HIDE DEF r
    <3>3.
          /\ r \in Conn /\ r.alive = fc[m].alive /\ r.count = fc[m].count
          /\ r.dev_count = fc[m].dev_count /\ r.connected = fc[m].connected
          /\ r.initialized = fc[m].initialized /\ r.sb = fc[m].sb
          /\ r.listed = fc[m].listed /\ r.ctl = fc[m].ctl
      BY <3>2 DEF r
    <3>4. MountOk("destroy", r, fs_info[m], mfile[m], init[m], d, k, ctlsb)
      BY <2>2, <3>1, <3>3 DEF MountOk, Own, Phases, Attached, Mounting, Unmounting, M!fuse_send_destroy
    <3> QED
      BY <3>4 DEF r
  <2>3. mpc[m] \in Mounting /\ "destroy" \notin Mounting => \A f \in Files : notify[f] # m
    BY SMT DEF Mounting, M!fuse_send_destroy
  <2>4. registered = {} => "destroy" \in {"idle", "gone"}
    BY SMT DEF MountInv, ModuleInv, M!fuse_send_destroy
  <2> QED
    BY <2>1, <2>2, <2>3, <2>4, OnlyMount
<1>2. CASE ~(fc[m].destroy = "alloc" /\ fc[m].conn_init)
  <2>1. /\ mpc' = [mpc EXCEPT ![m] = "abort"] /\ fc' = [fc EXCEPT ![m] = fc[m]]
        /\ fs_info' = [fs_info EXCEPT ![m] = fs_info[m]] /\ mfile' = [mfile EXCEPT ![m] = mfile[m]]
        /\ init' = [init EXCEPT ![m] = init[m]]
        /\ UNCHANGED <<uopen, priv, notify, ctlsb, user, registered>>
    BY <1>2, SameMount DEF M!fuse_send_destroy
  <2>2. ASSUME NEW d \in Nat, NEW k \in Nat,
               MountOk(mpc[m], fc[m], fs_info[m], mfile[m], init[m], d, k, ctlsb)
        PROVE  MountOk("abort", fc[m], fs_info[m], mfile[m], init[m], d, k,
                       ctlsb)
    BY <2>2 DEF MountOk, Own, Phases, Attached, Mounting, Unmounting, M!fuse_send_destroy
  <2>3. mpc[m] \in Mounting /\ "abort" \notin Mounting => \A f \in Files : notify[f] # m
    BY SMT DEF Mounting, M!fuse_send_destroy
  <2>4. registered = {} => "abort" \in {"idle", "gone"}
    BY SMT DEF MountInv, ModuleInv, M!fuse_send_destroy
  <2> QED
    BY <2>1, <2>2, <2>3, <2>4, OnlyMount
<1> QED
  BY <1>1, <1>2

(* fuse_send_destroy, after the wait.                                      *)
LEMMA DestroyAnswered ==
    ASSUME MountInv, NEW m \in Mounts, M!destroy_answered(m)
    PROVE  MountInv'
<1>1. /\ mpc' = [mpc EXCEPT ![m] = "abort"] /\ fc' = [fc EXCEPT ![m] = [fc[m] EXCEPT !.destroy = "none"]]
      /\ fs_info' = [fs_info EXCEPT ![m] = fs_info[m]] /\ mfile' = [mfile EXCEPT ![m] = mfile[m]]
      /\ init' = [init EXCEPT ![m] = init[m]]
      /\ UNCHANGED <<uopen, priv, notify, ctlsb, user, registered>>
  BY SameMount DEF M!destroy_answered
<1>2. ASSUME NEW d \in Nat, NEW k \in Nat,
             MountOk(mpc[m], fc[m], fs_info[m], mfile[m], init[m], d, k, ctlsb)
      PROVE  MountOk("abort", [fc[m] EXCEPT !.destroy = "none"], fs_info[m], mfile[m], init[m], d, k,
                     ctlsb)
  <2>1. fc[m] \in Conn /\ fc[m].count \in Nat /\ fc[m].dev_count \in Nat
    BY <1>2 DEF MountOk, Conn
  <2>2. LET r == [fc[m] EXCEPT !.destroy = "none"]
        IN
            /\ r \in Conn /\ r.alive = fc[m].alive /\ r.count = fc[m].count
            /\ r.dev_count = fc[m].dev_count /\ r.connected = fc[m].connected
            /\ r.initialized = fc[m].initialized /\ r.sb = fc[m].sb
            /\ r.listed = fc[m].listed /\ r.ctl = fc[m].ctl
    BY <2>1, DestroyFields
  <2> DEFINE r == [fc[m] EXCEPT !.destroy = "none"]
  <2> HIDE DEF r
  <2>3.
        /\ r \in Conn /\ r.alive = fc[m].alive /\ r.count = fc[m].count
        /\ r.dev_count = fc[m].dev_count /\ r.connected = fc[m].connected
        /\ r.initialized = fc[m].initialized /\ r.sb = fc[m].sb
        /\ r.listed = fc[m].listed /\ r.ctl = fc[m].ctl
    BY <2>2 DEF r
  <2>4. MountOk("abort", r, fs_info[m], mfile[m], init[m], d, k, ctlsb)
    BY <1>2, <2>1, <2>3 DEF MountOk, Own, Phases, Attached, Mounting, Unmounting, M!destroy_answered
  <2> QED
    BY <2>4 DEF r
<1>3. mpc[m] \in Mounting /\ "abort" \notin Mounting => \A f \in Files : notify[f] # m
  BY SMT DEF Mounting, M!destroy_answered
<1>4. registered = {} => "abort" \in {"idle", "gone"}
  BY SMT DEF MountInv, ModuleInv, M!destroy_answered
<1> QED
  BY <1>1, <1>2, <1>3, <1>4, OnlyMount

(* fuse_put_super: off the list, and the reference.                        *)
LEMMA PutSuper ==
    ASSUME MountInv, NEW m \in Mounts, M!fuse_put_super(m)
    PROVE  MountInv'
<1>1. /\ mpc' = [mpc EXCEPT ![m] = "gone"] /\ fc' = [fc EXCEPT ![m] = M!fuse_conn_put([fc[m] EXCEPT !.listed = FALSE, !.bdi = FALSE, !.ctl = FALSE])]
      /\ fs_info' = [fs_info EXCEPT ![m] = fs_info[m]] /\ mfile' = [mfile EXCEPT ![m] = mfile[m]]
      /\ init' = [init EXCEPT ![m] = init[m]]
      /\ UNCHANGED <<uopen, priv, notify, ctlsb, user, registered>>
  BY SameMount DEF M!fuse_put_super
<1>2. ASSUME NEW d \in Nat, NEW k \in Nat,
             MountOk(mpc[m], fc[m], fs_info[m], mfile[m], init[m], d, k, ctlsb)
      PROVE  MountOk("gone", M!fuse_conn_put([fc[m] EXCEPT !.listed = FALSE, !.bdi = FALSE, !.ctl = FALSE]), fs_info[m], mfile[m], init[m], d, k,
                     ctlsb)
  <2>1. fc[m] \in Conn /\ fc[m].count \in Nat /\ fc[m].dev_count \in Nat
    BY <1>2 DEF MountOk, Conn
  <2> DEFINE e == [fc[m] EXCEPT !.listed = FALSE, !.bdi = FALSE, !.ctl = FALSE]
  <2>2.
        /\ e \in Conn /\ e.alive = fc[m].alive /\ e.count = fc[m].count
        /\ e.dev_count = fc[m].dev_count /\ e.connected = fc[m].connected
        /\ e.initialized = fc[m].initialized /\ e.sb = fc[m].sb /\ e.listed = FALSE
        /\ e.ctl = FALSE
    BY <2>1, UnlistFields
  <2> HIDE DEF e
  <2>3. e.count > 0
    BY <1>2, <2>1, <2>2 DEF MountOk, Own, Phases, Attached, Mounting, Unmounting, M!fuse_put_super
  <2> DEFINE r == M!fuse_conn_put(e)
  <2>4. /\ r \in Conn /\ r.count = e.count - 1
        /\ e.count > 1 => r.alive = e.alive
        /\ e.count = 1 => ~r.alive
        /\ r.dev_count = e.dev_count /\ r.connected = e.connected
        /\ r.initialized = e.initialized /\ r.sb = e.sb
        /\ r.listed = e.listed /\ r.ctl = e.ctl
    BY <2>2, <2>3, PutFields
  <2> HIDE DEF r
  <2>5. MountOk("gone", r, fs_info[m], mfile[m], init[m], d, k, ctlsb)
    BY <1>2, <2>1, <2>2, <2>3, <2>4 DEF MountOk, Own, Phases, Attached, Mounting, Unmounting, M!fuse_put_super
  <2> QED
    BY <2>5 DEF r, e
<1>3. mpc[m] \in Mounting /\ "gone" \notin Mounting => \A f \in Files : notify[f] # m
  BY DEF Mounting, M!fuse_put_super
<1>4. registered = {} => "gone" \in {"idle", "gone"}
  BY SMT
<1> QED
  BY <1>1, <1>2, <1>3, <1>4, OnlyMount

(* fuse_fill_super, up to mutex_lock.                                      *)
LEMMA FillSetup ==
    ASSUME MountInv, NEW m \in Mounts, M!fill_super_setup(m)
    PROVE  MountInv'
<1> DEFINE x == IF bdev[m] THEN "alloc" ELSE "none"
           new == [M!NewConn EXCEPT !.destroy = x]
           one == M!fuse_conn_put(M!fuse_conn_init)
           all == M!unwind(M!NewConn)
<1>1. LET r == new
      IN  r \in Conn /\ r.count = 2 /\ r.alive /\ r.sb /\ r.dev_count = 1 /\ ~r.listed
          /\ ~r.ctl
  <2>1. x \in {"none", "alloc", "sent", "answered"}
    OBVIOUS
  <2> HIDE DEF x
  <2>2. M!NewConn \in Conn
    BY NewFields
  <2>3. /\ new \in Conn /\ new.count = M!NewConn.count /\ new.alive = M!NewConn.alive
        /\ new.sb = M!NewConn.sb /\ new.dev_count = M!NewConn.dev_count
        /\ new.listed = M!NewConn.listed /\ new.ctl = M!NewConn.ctl
    BY <2>1, <2>2, DestroyFields
  <2> HIDE DEF new
  <2> QED
    BY <2>3, NewFields
<1>2. one \in Conn /\ one.count = 0 /\ ~one.alive /\ ~one.listed /\ ~one.ctl
  <2>1. LET c == M!fuse_conn_init
        IN  c \in Conn /\ c.count = 1 /\ c.count > 0 /\ ~c.listed /\ ~c.ctl
    BY NewFields
  <2> QED
    BY <2>1, PutFields
<1>3. all \in Conn /\ all.count = 0 /\ ~all.alive /\ ~all.listed /\ ~all.ctl
  BY NewFields, UnwindFields
<1>4. CASE /\ mpc' = [mpc EXCEPT ![m] = "publish"] /\ fc' = [fc EXCEPT ![m] = new]
           /\ fs_info' = [fs_info EXCEPT ![m] = TRUE] /\ mfile' = mfile
  <2>1. /\ mpc' = [mpc EXCEPT ![m] = "publish"] /\ fc' = [fc EXCEPT ![m] = new]
        /\ fs_info' = [fs_info EXCEPT ![m] = TRUE] /\ mfile' = [mfile EXCEPT ![m] = mfile[m]]
        /\ init' = [init EXCEPT ![m] = init[m]]
        /\ UNCHANGED <<uopen, priv, notify, ctlsb, user, registered>>
    BY <1>4, SameMount DEF M!fill_super_setup
  <2>2. ASSUME NEW d \in Nat, NEW k \in Nat,
               MountOk(mpc[m], fc[m], fs_info[m], mfile[m], init[m], d, k, ctlsb)
        PROVE  MountOk("publish", new, TRUE, mfile[m], init[m], d, k,
                       ctlsb)
    <3> HIDE DEF new, one, all
    <3> QED
      BY <2>2, <1>1 DEF MountOk, Own, Phases, Attached, Mounting, Unmounting, M!fill_super_setup
  <2>3. mpc[m] \in Mounting /\ "publish" \notin Mounting => \A f \in Files : notify[f] # m
    BY DEF Mounting, M!fill_super_setup
  <2>4. registered = {} => "publish" \in {"idle", "gone"}
    BY DEF MountInv, ModuleInv, M!fill_super_setup
  <2> QED
    BY <2>1, <2>2, <2>3, <2>4, OnlyMount
<1>5. CASE /\ mpc' = [mpc EXCEPT ![m] = "failed"] /\ mfile' = [mfile EXCEPT ![m] = Nil]
           /\ UNCHANGED <<fc, fs_info>>
  <2>1. /\ mpc' = [mpc EXCEPT ![m] = "failed"] /\ fc' = [fc EXCEPT ![m] = fc[m]]
        /\ fs_info' = [fs_info EXCEPT ![m] = fs_info[m]] /\ mfile' = [mfile EXCEPT ![m] = Nil]
        /\ init' = [init EXCEPT ![m] = init[m]]
        /\ UNCHANGED <<uopen, priv, notify, ctlsb, user, registered>>
    BY <1>5, SameMount DEF M!fill_super_setup
  <2>2. ASSUME NEW d \in Nat, NEW k \in Nat,
               MountOk(mpc[m], fc[m], fs_info[m], mfile[m], init[m], d, k, ctlsb)
        PROVE  MountOk("failed", fc[m], fs_info[m], Nil, init[m], d, k,
                       ctlsb)
    <3> HIDE DEF new, one, all
    <3> QED
      BY <2>2 DEF MountOk, Own, Phases, Attached, Mounting, Unmounting, M!fill_super_setup
  <2>3. mpc[m] \in Mounting /\ "failed" \notin Mounting => \A f \in Files : notify[f] # m
    BY DEF Mounting, M!fill_super_setup
  <2>4. registered = {} => "failed" \in {"idle", "gone"}
    BY DEF MountInv, ModuleInv, M!fill_super_setup
  <2> QED
    BY <2>1, <2>2, <2>3, <2>4, OnlyMount
<1>6. CASE /\ mpc' = [mpc EXCEPT ![m] = "failed"] /\ mfile' = [mfile EXCEPT ![m] = Nil]
           /\ fc' = [fc EXCEPT ![m] = one] /\ UNCHANGED fs_info
  <2>1. /\ mpc' = [mpc EXCEPT ![m] = "failed"] /\ fc' = [fc EXCEPT ![m] = one]
        /\ fs_info' = [fs_info EXCEPT ![m] = fs_info[m]] /\ mfile' = [mfile EXCEPT ![m] = Nil]
        /\ init' = [init EXCEPT ![m] = init[m]]
        /\ UNCHANGED <<uopen, priv, notify, ctlsb, user, registered>>
    BY <1>6, SameMount DEF M!fill_super_setup
  <2>2. ASSUME NEW d \in Nat, NEW k \in Nat,
               MountOk(mpc[m], fc[m], fs_info[m], mfile[m], init[m], d, k, ctlsb)
        PROVE  MountOk("failed", one, fs_info[m], Nil, init[m], d, k,
                       ctlsb)
    <3> HIDE DEF new, one, all
    <3> QED
      BY <2>2, <1>2 DEF MountOk, Own, Phases, Attached, Mounting, Unmounting, M!fill_super_setup
  <2>3. mpc[m] \in Mounting /\ "failed" \notin Mounting => \A f \in Files : notify[f] # m
    BY DEF Mounting, M!fill_super_setup
  <2>4. registered = {} => "failed" \in {"idle", "gone"}
    BY DEF MountInv, ModuleInv, M!fill_super_setup
  <2> QED
    BY <2>1, <2>2, <2>3, <2>4, OnlyMount
<1>7. ASSUME NEW b \in BOOLEAN, mpc' = [mpc EXCEPT ![m] = "failed"],
             mfile' = [mfile EXCEPT ![m] = Nil], fc' = [fc EXCEPT ![m] = all],
             fs_info' = [fs_info EXCEPT ![m] = b]
      PROVE  MountInv'
  <2>1. /\ mpc' = [mpc EXCEPT ![m] = "failed"] /\ fc' = [fc EXCEPT ![m] = all]
        /\ fs_info' = [fs_info EXCEPT ![m] = b] /\ mfile' = [mfile EXCEPT ![m] = Nil]
        /\ init' = [init EXCEPT ![m] = init[m]]
        /\ UNCHANGED <<uopen, priv, notify, ctlsb, user, registered>>
    BY <1>7, SameMount DEF M!fill_super_setup
  <2>2. ASSUME NEW d \in Nat, NEW k \in Nat,
               MountOk(mpc[m], fc[m], fs_info[m], mfile[m], init[m], d, k, ctlsb)
        PROVE  MountOk("failed", all, b, Nil, init[m], d, k,
                       ctlsb)
    <3> HIDE DEF new, one, all
    <3> QED
      BY <2>2, <1>3 DEF MountOk, Own, Phases, Attached, Mounting, Unmounting, M!fill_super_setup
  <2>3. mpc[m] \in Mounting /\ "failed" \notin Mounting => \A f \in Files : notify[f] # m
    BY DEF Mounting, M!fill_super_setup
  <2>4. registered = {} => "failed" \in {"idle", "gone"}
    BY DEF MountInv, ModuleInv, M!fill_super_setup
  <2> QED
    BY <2>1, <2>2, <2>3, <2>4, OnlyMount
<1> HIDE DEF new, one, all
<1> QED
  BY <1>4, <1>5, <1>6, <1>7 DEF M!fill_super_setup, new, one, all

(* A device file that is attached leads to a published connection.         *)
LEMMA FileMount ==
    ASSUME MountInv, NEW f \in Files, priv[f] # Nil
    PROVE  /\ priv[f] \in Mounts /\ mpc[priv[f]] \in Attached \cup {"gone"}
           /\ Devices(priv[f]) > 0 /\ registered # {}
<1>1. priv[f] \in Mounts
  BY DEF MountInv, FilesType
<1>2. Devices(priv[f]) > 0
  BY CountsNat
<1>3. MountOk(mpc[priv[f]], fc[priv[f]], fs_info[priv[f]], mfile[priv[f]], init[priv[f]],
              Devices(priv[f]), CtlUsers(priv[f]), ctlsb)
  BY <1>1 DEF MountInv, Mount
<1>4. mpc[priv[f]] \in Attached \cup {"gone"}
  BY <1>2, <1>3 DEF MountOk
<1>5. registered # {}
  BY DEF MountInv, ModuleInv
<1> QED
  BY <1>1, <1>2, <1>4, <1>5

(* A step on a connection that stays where it is, of its INIT request.     *)
LEMMA InitStep ==
    ASSUME MountInv, NEW m \in Mounts, NEW c, NEW i, registered # {},
           fc' = [fc EXCEPT ![m] = c], init' = [init EXCEPT ![m] = i],
           UNCHANGED <<mpc, fs_info, mfile, uopen, priv, notify, ctlsb, user, registered>>,
           \A d, k \in Nat :
             MountOk(mpc[m], fc[m], fs_info[m], mfile[m], init[m], d, k, ctlsb)
             => MountOk(mpc[m], c, fs_info[m], mfile[m], i, d, k, ctlsb)
    PROVE  MountInv'
<1> DEFINE p == mpc[m]
           s == fs_info[m]
           h == mfile[m]
<1>1. /\ mpc' = [mpc EXCEPT ![m] = p] /\ fs_info' = [fs_info EXCEPT ![m] = s]
      /\ mfile' = [mfile EXCEPT ![m] = h]
  BY SameMount
<1>2. mpc[m] \in Mounting /\ p \notin Mounting => \A f \in Files : notify[f] # m
  OBVIOUS
<1>3. \A d, k \in Nat :
             MountOk(mpc[m], fc[m], fs_info[m], mfile[m], init[m], d, k, ctlsb)
             => MountOk(p, c, s, h, i, d, k, ctlsb)
  OBVIOUS
<1> HIDE DEF p, s, h
<1> QED
  BY <1>1, <1>2, <1>3, OnlyMount

(* fuse_dev_do_read takes INIT.                                            *)
LEMMA ReadInit ==
    ASSUME MountInv, NEW f \in Files, M!read_init(f)
    PROVE  MountInv'
<1> DEFINE m == priv[f]
<1>1. m \in Mounts /\ mpc[m] \in Attached \cup {"gone"} /\ Devices(m) > 0
      /\ registered # {}
  BY FileMount DEF M!read_init
<1>2. fc' = [fc EXCEPT ![m] = fc[m]] /\ init' = [init EXCEPT ![m] = "read"]
      /\ UNCHANGED <<mpc, fs_info, mfile, uopen, priv, notify, ctlsb, user, registered>>
  BY SameMount, <1>1 DEF M!read_init
<1>3. ASSUME NEW d \in Nat, NEW k \in Nat,
             MountOk(mpc[m], fc[m], fs_info[m], mfile[m], init[m], d, k, ctlsb)
      PROVE  MountOk(mpc[m], fc[m], fs_info[m], mfile[m], "read", d, k, ctlsb)
  BY <1>1, <1>3 DEF MountOk, Own, Phases, Attached, Mounting, Unmounting, M!read_init
<1> HIDE DEF m
<1> QED
  BY <1>1, <1>2, <1>3, InitStep

(* fuse_dev_do_write answers DESTROY.                                      *)
LEMMA AnswerDestroy ==
    ASSUME MountInv, NEW f \in Files, M!answer_destroy(f)
    PROVE  MountInv'
<1> DEFINE m == priv[f]
<1>1. m \in Mounts /\ mpc[m] \in Attached \cup {"gone"} /\ Devices(m) > 0
      /\ registered # {}
  BY FileMount DEF M!answer_destroy
<1>2. fc' = [fc EXCEPT ![m] = [fc[m] EXCEPT !.destroy = "answered"]] /\ init' = [init EXCEPT ![m] = init[m]]
      /\ UNCHANGED <<mpc, fs_info, mfile, uopen, priv, notify, ctlsb, user, registered>>
  BY SameMount, <1>1 DEF M!answer_destroy
<1>3. ASSUME NEW d \in Nat, NEW k \in Nat,
             MountOk(mpc[m], fc[m], fs_info[m], mfile[m], init[m], d, k, ctlsb)
      PROVE  MountOk(mpc[m], [fc[m] EXCEPT !.destroy = "answered"], fs_info[m], mfile[m], init[m], d, k, ctlsb)
  <2>1. fc[m] \in Conn /\ fc[m].count \in Nat /\ fc[m].dev_count \in Nat
    BY <1>3 DEF MountOk, Conn
  <2>2. LET r == [fc[m] EXCEPT !.destroy = "answered"]
        IN
            /\ r \in Conn /\ r.alive = fc[m].alive /\ r.count = fc[m].count
            /\ r.dev_count = fc[m].dev_count /\ r.connected = fc[m].connected
            /\ r.initialized = fc[m].initialized /\ r.sb = fc[m].sb
            /\ r.listed = fc[m].listed /\ r.ctl = fc[m].ctl
    BY <2>1, DestroyFields
  <2> DEFINE r == [fc[m] EXCEPT !.destroy = "answered"]
  <2> HIDE DEF r
  <2>3.
        /\ r \in Conn /\ r.alive = fc[m].alive /\ r.count = fc[m].count
        /\ r.dev_count = fc[m].dev_count /\ r.connected = fc[m].connected
        /\ r.initialized = fc[m].initialized /\ r.sb = fc[m].sb
        /\ r.listed = fc[m].listed /\ r.ctl = fc[m].ctl
    BY <2>2 DEF r
  <2>4. MountOk(mpc[m], r, fs_info[m], mfile[m], init[m], d, k, ctlsb)
    BY <1>3, <2>1, <2>3 DEF MountOk, Own, Phases, Attached, Mounting, Unmounting, M!answer_destroy
  <2> QED
    BY <2>4 DEF r
<1> HIDE DEF m
<1> QED
  BY <1>1, <1>2, <1>3, InitStep

(* process_init_reply.                                                     *)
LEMMA InitReply ==
    ASSUME MountInv, NEW f \in Files, M!process_init_reply(f)
    PROVE  MountInv'
<1> DEFINE m == priv[f]
<1>1. m \in Mounts /\ mpc[m] \in Attached \cup {"gone"} /\ Devices(m) > 0
      /\ registered # {}
  BY FileMount DEF M!process_init_reply
<1>2. CASE fc' = [fc EXCEPT ![m] = M!init_error(fc[m])]
  <2>2. fc' = [fc EXCEPT ![m] = M!init_error(fc[m])] /\ init' = [init EXCEPT ![m] = "ended"]
        /\ UNCHANGED <<mpc, fs_info, mfile, uopen, priv, notify, ctlsb, user, registered>>
    BY <1>2, SameMount, <1>1 DEF M!process_init_reply
  <2>3. ASSUME NEW d \in Nat, NEW k \in Nat,
               MountOk(mpc[m], fc[m], fs_info[m], mfile[m], init[m], d, k, ctlsb)
        PROVE  MountOk(mpc[m], M!init_error(fc[m]), fs_info[m], mfile[m], "ended", d, k, ctlsb)
    <3>1. fc[m] \in Conn /\ fc[m].count \in Nat /\ fc[m].dev_count \in Nat
      BY <2>3 DEF MountOk, Conn
    <3>2. LET r == M!init_error(fc[m])
          IN
              /\ r \in Conn /\ r.alive = fc[m].alive /\ r.count = fc[m].count
              /\ r.dev_count = fc[m].dev_count /\ r.connected = fc[m].connected
              /\ r.initialized = TRUE /\ r.sb = fc[m].sb /\ r.listed = fc[m].listed
              /\ r.ctl = fc[m].ctl
      BY <3>1, InitErrorFields
    <3> DEFINE r == M!init_error(fc[m])
    <3> HIDE DEF r
    <3>3.
          /\ r \in Conn /\ r.alive = fc[m].alive /\ r.count = fc[m].count
          /\ r.dev_count = fc[m].dev_count /\ r.connected = fc[m].connected
          /\ r.initialized = TRUE /\ r.sb = fc[m].sb /\ r.listed = fc[m].listed
          /\ r.ctl = fc[m].ctl
      BY <3>2 DEF r
    <3>4. MountOk(mpc[m], r, fs_info[m], mfile[m], "ended", d, k, ctlsb)
      BY <2>3, <3>1, <3>3 DEF MountOk, Own, Phases, Attached, Mounting, Unmounting, M!process_init_reply
    <3> QED
      BY <3>4 DEF r
  <2> QED
    BY <1>1, <2>2, <2>3, InitStep
<1>3. CASE fc' = [fc EXCEPT ![m] = [M!init_error(fc[m]) EXCEPT !.conn_init = TRUE]]
  <2>2. fc' = [fc EXCEPT ![m] = [M!init_error(fc[m]) EXCEPT !.conn_init = TRUE]] /\ init' = [init EXCEPT ![m] = "ended"]
        /\ UNCHANGED <<mpc, fs_info, mfile, uopen, priv, notify, ctlsb, user, registered>>
    BY <1>3, SameMount, <1>1 DEF M!process_init_reply
  <2>3. ASSUME NEW d \in Nat, NEW k \in Nat,
               MountOk(mpc[m], fc[m], fs_info[m], mfile[m], init[m], d, k, ctlsb)
        PROVE  MountOk(mpc[m], [M!init_error(fc[m]) EXCEPT !.conn_init = TRUE], fs_info[m], mfile[m], "ended", d, k, ctlsb)
    <3>1. fc[m] \in Conn /\ fc[m].count \in Nat /\ fc[m].dev_count \in Nat
      BY <2>3 DEF MountOk, Conn
    <3>2. LET r == [M!init_error(fc[m]) EXCEPT !.conn_init = TRUE]
          IN
              /\ r \in Conn /\ r.alive = fc[m].alive /\ r.count = fc[m].count
              /\ r.dev_count = fc[m].dev_count /\ r.connected = fc[m].connected
              /\ r.initialized = TRUE /\ r.sb = fc[m].sb /\ r.listed = fc[m].listed
              /\ r.ctl = fc[m].ctl
      BY <3>1, ConnInitFields
    <3> DEFINE r == [M!init_error(fc[m]) EXCEPT !.conn_init = TRUE]
    <3> HIDE DEF r
    <3>3.
          /\ r \in Conn /\ r.alive = fc[m].alive /\ r.count = fc[m].count
          /\ r.dev_count = fc[m].dev_count /\ r.connected = fc[m].connected
          /\ r.initialized = TRUE /\ r.sb = fc[m].sb /\ r.listed = fc[m].listed
          /\ r.ctl = fc[m].ctl
      BY <3>2 DEF r
    <3>4. MountOk(mpc[m], r, fs_info[m], mfile[m], "ended", d, k, ctlsb)
      BY <2>3, <3>1, <3>3 DEF MountOk, Own, Phases, Attached, Mounting, Unmounting, M!process_init_reply
    <3> QED
      BY <3>4 DEF r
  <2> QED
    BY <1>1, <2>2, <2>3, InitStep
<1>4. CASE ~fc[m].sb /\ UNCHANGED fc
  <2>2. fc' = [fc EXCEPT ![m] = fc[m]] /\ init' = [init EXCEPT ![m] = "ended"]
        /\ UNCHANGED <<mpc, fs_info, mfile, uopen, priv, notify, ctlsb, user, registered>>
    BY <1>4, SameMount, <1>1 DEF M!process_init_reply
  <2>3. ASSUME NEW d \in Nat, NEW k \in Nat,
               MountOk(mpc[m], fc[m], fs_info[m], mfile[m], init[m], d, k, ctlsb)
        PROVE  MountOk(mpc[m], fc[m], fs_info[m], mfile[m], "ended", d, k, ctlsb)
    BY <1>4, <1>1, <2>3 DEF MountOk, Own, Phases, Attached, Mounting, Unmounting, M!process_init_reply
  <2> QED
    BY <1>1, <2>2, <2>3, InitStep
<1> QED
  BY <1>2, <1>3, <1>4 DEF M!process_init_reply

-----------------------------------------------------------------------------
(* Device files and control file operations come and go: the counts move   *)
(* with them.                                                              *)
LEMMA PrivMoves ==
    ASSUME MountInv, NEW f \in Files, NEW v, priv' = [priv EXCEPT ![f] = v],
           priv[f] # v, UNCHANGED user, NEW n \in Mounts
    PROVE  /\ Devices(n) \in Nat /\ CtlUsers(n) \in Nat /\ CtlUsers(n)' = CtlUsers(n)
           /\ v = n => Devices(n)' = Devices(n) + 1
           /\ priv[f] = n => Devices(n)' = Devices(n) - 1 /\ Devices(n) > 0
           /\ priv[f] # n /\ v # n => Devices(n)' = Devices(n)
<1> DEFINE G == PointTo(Files, priv, n)
           H == PointTo(Files, priv', n)
<1>1. /\ Devices(n) = Cardinality(G) /\ Devices(n)' = Cardinality(H) /\ CtlUsers(n)' = CtlUsers(n)
  BY DEF Devices, CtlUsers, PointTo
<1>2. /\ IsFiniteSet(G) /\ Cardinality(G) \in Nat
      /\ IsFiniteSet(H) /\ Cardinality(H) \in Nat /\ CtlUsers(n) \in Nat
  BY CountsNat, CountNat
<1>3. /\ v = n => H = G \cup {f} /\ f \notin G
      /\ priv[f] = n => G = H \cup {f} /\ f \notin H
      /\ priv[f] # n /\ v # n => H = G
  BY DEF PointTo, MountInv, FilesType
<1> HIDE DEF G, H
<1>4. ASSUME v = n PROVE Cardinality(H) = Cardinality(G) + 1
  BY <1>2, <1>3, <1>4, FS_AddElement
<1>5. ASSUME priv[f] = n PROVE Cardinality(G) = Cardinality(H) + 1
  BY <1>2, <1>3, <1>5, FS_AddElement
<1>6. ASSUME priv[f] # n, v # n PROVE Cardinality(H) = Cardinality(G)
  BY <1>3, <1>6
<1> QED
  BY <1>1, <1>2, <1>4, <1>5, <1>6

LEMMA UserMoves ==
    ASSUME MountInv, NEW u \in Users, NEW v, user' = [user EXCEPT ![u] = v],
           user[u] # v, UNCHANGED priv, NEW n \in Mounts
    PROVE  /\ CtlUsers(n) \in Nat /\ Devices(n) \in Nat /\ Devices(n)' = Devices(n)
           /\ v = n => CtlUsers(n)' = CtlUsers(n) + 1
           /\ user[u] = n => CtlUsers(n)' = CtlUsers(n) - 1 /\ CtlUsers(n) > 0
           /\ user[u] # n /\ v # n => CtlUsers(n)' = CtlUsers(n)
<1> DEFINE G == PointTo(Users, user, n)
           H == PointTo(Users, user', n)
<1>1. /\ CtlUsers(n) = Cardinality(G) /\ CtlUsers(n)' = Cardinality(H) /\ Devices(n)' = Devices(n)
  BY DEF Devices, CtlUsers, PointTo
<1>2. /\ IsFiniteSet(G) /\ Cardinality(G) \in Nat
      /\ IsFiniteSet(H) /\ Cardinality(H) \in Nat /\ Devices(n) \in Nat
  BY CountsNat, CountNat
<1>3. /\ v = n => H = G \cup {u} /\ u \notin G
      /\ user[u] = n => G = H \cup {u} /\ u \notin H
      /\ user[u] # n /\ v # n => H = G
  BY DEF PointTo, MountInv, FilesType
<1> HIDE DEF G, H
<1>4. ASSUME v = n PROVE Cardinality(H) = Cardinality(G) + 1
  BY <1>2, <1>3, <1>4, FS_AddElement
<1>5. ASSUME user[u] = n PROVE Cardinality(G) = Cardinality(H) + 1
  BY <1>2, <1>3, <1>5, FS_AddElement
<1>6. ASSUME user[u] # n, v # n PROVE Cardinality(H) = Cardinality(G)
  BY <1>3, <1>6
<1> QED
  BY <1>1, <1>2, <1>4, <1>5, <1>6

(* A file or an operation takes or leaves the connection of m.             *)
LEMMA RefStep ==
    ASSUME MountInv, NEW m \in Mounts, NEW p, NEW c, NEW i, NEW d \in Nat, NEW k \in Nat,
           mpc' = [mpc EXCEPT ![m] = p], fc' = [fc EXCEPT ![m] = c],
           init' = [init EXCEPT ![m] = i],
           UNCHANGED <<fs_info, mfile, uopen, notify, ctlsb, registered>>,
           FilesType', registered # {} \/ (priv' = priv /\ p = mpc[m]),
           p \in Mounting \/ p = mpc[m],
           \A n \in Mounts \ {m} : Devices(n)' = Devices(n) /\ CtlUsers(n)' = CtlUsers(n),
           Devices(m)' = d, CtlUsers(m)' = k,
           MountOk(p, c, fs_info[m], mfile[m], i, d, k, ctlsb)
    PROVE  MountInv'
<1>1. MountType'
  BY DEF MountInv, MountType
<1>2. mpc'[m] = p /\ fc'[m] = c /\ fs_info'[m] = fs_info[m] /\ mfile'[m] = mfile[m]
      /\ init'[m] = i
  BY DEF MountInv, MountType
<1>3. Others(m)
  BY DEF Others, MountInv, MountType
<1>4. MountOk(mpc'[m], fc'[m], fs_info'[m], mfile'[m], init'[m], d, k, ctlsb)
  BY <1>2
<1>5. mpc[m] \in Mounting /\ mpc'[m] \notin Mounting => \A f \in Files : notify[f] # m
  BY <1>2
<1>6. \A f \in Files : notify'[f] = notify[f]
  OBVIOUS
<1>7. registered = {} => /\ \A f \in Files : ~uopen'[f] /\ priv'[f] = Nil
                         /\ mpc'[m] \in {"idle", "gone"}
  BY <1>2 DEF MountInv, ModuleInv
<1> QED
  BY <1>1, <1>3, <1>4, <1>5, <1>6, <1>7, OneMount

(* fuse_fill_super attaches the device.                                    *)
LEMMA FillPublish ==
    ASSUME MountInv, NEW m \in Mounts, M!fill_super_publish(m)
    PROVE  MountInv'
<1> DEFINE f == mfile[m]
           c == [fc[m] EXCEPT !.listed = TRUE, !.ctl = ctlsb]
           d == Devices(m)
           k == CtlUsers(m)
<1>1. MountOk(mpc[m], fc[m], fs_info[m], mfile[m], init[m], d, k, ctlsb)
  BY DEF MountInv, Mount
<1>2. mpc[m] = "publish" /\ f \in Files /\ priv[f] = Nil /\ ctlsb \in BOOLEAN
  BY <1>1 DEF M!fill_super_publish, MountOk, MountInv, FilesType
<1>3. m # Nil
  OBVIOUS
<1>4. /\ mpc' = [mpc EXCEPT ![m] = "fput"] /\ fc' = [fc EXCEPT ![m] = c]
      /\ init' = [init EXCEPT ![m] = init[m]] /\ priv' = [priv EXCEPT ![f] = m]
      /\ UNCHANGED <<fs_info, mfile, uopen, notify, ctlsb, registered>> /\ UNCHANGED user
  BY SameMount DEF M!fill_super_publish
<1>5. FilesType'
  BY <1>2, <1>4 DEF MountInv, FilesType
<1>6. registered # {}
  BY <1>2 DEF MountInv, ModuleInv
<1>7. /\ c \in Conn /\ c.listed = TRUE /\ c.ctl = ctlsb
      /\ c.alive = fc[m].alive /\ c.count = fc[m].count /\ c.dev_count = fc[m].dev_count
      /\ c.connected = fc[m].connected /\ c.initialized = fc[m].initialized
      /\ c.sb = fc[m].sb
  <2>1. fc[m] \in Conn
    BY <1>1 DEF MountOk
  <2> QED
    BY <1>2, <2>1, ListFields
<1> HIDE DEF f, c
<1>8. /\ d \in Nat /\ k \in Nat /\ k' = k /\ d' = d + 1
      /\ \A n \in Mounts \ {m} : Devices(n)' = Devices(n) /\ CtlUsers(n)' = CtlUsers(n)
  BY <1>2, <1>3, <1>4, PrivMoves
<1> HIDE DEF d, k
<1>9. fc[m].count \in Nat /\ fc[m].dev_count \in Nat
  BY <1>1 DEF MountOk, Conn
<1>10. MountOk("fput", c, fs_info[m], mfile[m], init[m], d + 1, k, ctlsb)
  BY <1>1, <1>2, <1>7, <1>8, <1>9
     DEF MountOk, Own, Phases, Attached, Mounting, Unmounting
<1>11. d + 1 \in Nat /\ Devices(m)' = d + 1 /\ CtlUsers(m)' = k
  BY <1>8 DEF d, k
<1>12. "fput" \in Mounting
  BY DEF Mounting
<1> QED
  BY <1>4, <1>5, <1>6, <1>8, <1>10, <1>11, <1>12, RefStep

(* fuse_device_clone.                                                      *)
LEMMA DeviceClone ==
    ASSUME MountInv, NEW old \in Files, NEW f \in Files, M!fuse_device_clone(old, f)
    PROVE  MountInv'
<1>0. PICK m : m = priv[old]
  OBVIOUS
<1> DEFINE c == [M!Get(fc[m]) EXCEPT !.dev_count = fc[m].dev_count + 1]
           d == Devices(m)
           k == CtlUsers(m)
<1>1. m \in Mounts /\ mpc[m] \in Attached \cup {"gone"} /\ d > 0 /\ registered # {}
  BY <1>0, FileMount DEF M!fuse_device_clone
<1>2. MountOk(mpc[m], fc[m], fs_info[m], mfile[m], init[m], d, k, ctlsb)
  BY <1>1 DEF MountInv, Mount
<1>3. priv[f] = Nil /\ m # Nil
  BY <1>0, <1>1 DEF M!fuse_device_clone
<1>4. /\ mpc' = [mpc EXCEPT ![m] = mpc[m]] /\ fc' = [fc EXCEPT ![m] = c]
      /\ init' = [init EXCEPT ![m] = init[m]] /\ priv' = [priv EXCEPT ![f] = m]
      /\ UNCHANGED <<fs_info, mfile, uopen, notify, ctlsb, registered>> /\ UNCHANGED user
  BY <1>0, <1>1, SameMount DEF M!fuse_device_clone
<1>5. FilesType'
  BY <1>1, <1>4 DEF MountInv, FilesType
<1>6. /\ c \in Conn /\ c.count = fc[m].count + 1 /\ c.dev_count = fc[m].dev_count + 1
      /\ c.alive = fc[m].alive /\ c.connected = fc[m].connected
      /\ c.initialized = fc[m].initialized /\ c.sb = fc[m].sb
      /\ c.listed = fc[m].listed /\ c.ctl = fc[m].ctl
  <2>1. fc[m] \in Conn
    BY <1>2 DEF MountOk
  <2> QED
    BY <2>1, CloneFields
<1> HIDE DEF c
<1>7. /\ d \in Nat /\ k \in Nat /\ Devices(m)' = d + 1 /\ CtlUsers(m)' = k
      /\ \A n \in Mounts \ {m} : Devices(n)' = Devices(n) /\ CtlUsers(n)' = CtlUsers(n)
  BY <1>1, <1>3, <1>4, PrivMoves
<1> HIDE DEF d, k
<1>8. fc[m].count \in Nat /\ fc[m].dev_count \in Nat
  BY <1>2 DEF MountOk, Conn
<1>9. MountOk(mpc[m], c, fs_info[m], mfile[m], init[m], d + 1, k, ctlsb)
  BY <1>1, <1>2, <1>6, <1>7, <1>8
     DEF MountOk, Own, Phases, Attached, Mounting, Unmounting
<1>10. d + 1 \in Nat
  BY <1>7
<1> DEFINE p == mpc[m]
           i == init[m]
<1>11. /\ mpc' = [mpc EXCEPT ![m] = p] /\ init' = [init EXCEPT ![m] = i] /\ p = mpc[m]
       /\ MountOk(p, c, fs_info[m], mfile[m], i, d + 1, k, ctlsb)
  BY <1>4, <1>9
<1> HIDE DEF p, i
<1> QED
  BY <1>1, <1>4, <1>5, <1>7, <1>10, <1>11, RefStep

(* fuse_ctl_file_conn_get.                                                 *)
LEMMA CtlGet ==
    ASSUME MountInv, NEW u \in Users, NEW m \in Mounts, M!fuse_ctl_file_conn_get(u, m)
    PROVE  MountInv'
<1> DEFINE c == M!Get(fc[m])
           d == Devices(m)
           k == CtlUsers(m)
<1>1. user[u] = Nil /\ fc[m].ctl /\ m # Nil
  BY DEF M!fuse_ctl_file_conn_get
<1>2. MountOk(mpc[m], fc[m], fs_info[m], mfile[m], init[m], d, k, ctlsb)
  BY DEF MountInv, Mount
<1>3. mpc[m] \in Attached
  BY <1>1, <1>2 DEF MountOk
<1>4. /\ mpc' = [mpc EXCEPT ![m] = mpc[m]] /\ fc' = [fc EXCEPT ![m] = c]
      /\ init' = [init EXCEPT ![m] = init[m]] /\ user' = [user EXCEPT ![u] = m]
      /\ UNCHANGED <<fs_info, mfile, uopen, notify, ctlsb, registered>> /\ UNCHANGED priv
  BY SameMount DEF M!fuse_ctl_file_conn_get
<1>5. FilesType'
  BY <1>4 DEF MountInv, FilesType
<1>6. /\ c \in Conn /\ c.count = fc[m].count + 1 /\ c.dev_count = fc[m].dev_count
      /\ c.alive = fc[m].alive /\ c.connected = fc[m].connected
      /\ c.initialized = fc[m].initialized /\ c.sb = fc[m].sb
      /\ c.listed = fc[m].listed /\ c.ctl = fc[m].ctl
  <2>1. fc[m] \in Conn
    BY <1>2 DEF MountOk
  <2> QED
    BY <2>1, GetFields
<1> HIDE DEF c
<1>7. /\ d \in Nat /\ k \in Nat /\ Devices(m)' = d /\ CtlUsers(m)' = k + 1
      /\ \A n \in Mounts \ {m} : Devices(n)' = Devices(n) /\ CtlUsers(n)' = CtlUsers(n)
  BY <1>1, <1>4, UserMoves
<1> HIDE DEF d, k
<1>8. fc[m].count \in Nat /\ fc[m].dev_count \in Nat
  BY <1>2 DEF MountOk, Conn
<1>9. MountOk(mpc[m], c, fs_info[m], mfile[m], init[m], d, k + 1, ctlsb)
  BY <1>2, <1>3, <1>6, <1>7, <1>8
     DEF MountOk, Own, Phases, Attached, Mounting, Unmounting
<1>10. k + 1 \in Nat
  BY <1>7
<1> DEFINE p == mpc[m]
           i == init[m]
<1>11. /\ mpc' = [mpc EXCEPT ![m] = p] /\ init' = [init EXCEPT ![m] = i] /\ p = mpc[m]
       /\ MountOk(p, c, fs_info[m], mfile[m], i, d, k + 1, ctlsb) /\ priv' = priv
  BY <1>4, <1>9
<1> HIDE DEF p, i
<1> QED
  BY <1>4, <1>5, <1>7, <1>10, <1>11, RefStep

(* fuse_conn_put at the end of a control file operation.                   *)
LEMMA CtlPut ==
    ASSUME MountInv, NEW u \in Users, M!ctl_put(u)
    PROVE  MountInv'
<1>0. PICK m : m = user[u]
  OBVIOUS
<1> DEFINE c == M!fuse_conn_put(fc[m])
           d == Devices(m)
           k == CtlUsers(m)
<1>1. m \in Mounts /\ m # Nil
  BY <1>0 DEF M!ctl_put, MountInv, FilesType
<1>2. MountOk(mpc[m], fc[m], fs_info[m], mfile[m], init[m], d, k, ctlsb)
  BY <1>1 DEF MountInv, Mount
<1>3. d \in Nat /\ k \in Nat /\ k > 0
  BY <1>0, CountsNat
<1>4. /\ mpc' = [mpc EXCEPT ![m] = mpc[m]] /\ fc' = [fc EXCEPT ![m] = c]
      /\ init' = [init EXCEPT ![m] = init[m]] /\ user' = [user EXCEPT ![u] = Nil]
      /\ UNCHANGED <<fs_info, mfile, uopen, notify, ctlsb, registered>> /\ UNCHANGED priv
  BY <1>0, <1>1, SameMount DEF M!ctl_put
<1>5. FilesType'
  BY <1>4 DEF MountInv, FilesType
<1>6. fc[m] \in Conn /\ fc[m].count \in Nat /\ fc[m].dev_count \in Nat
  BY <1>2 DEF MountOk, Conn
<1>7. fc[m].count > 0
  <2> HIDE DEF d, k
  <2> QED
    BY <1>2, <1>3, <1>6 DEF MountOk, Own
<1>8. /\ c \in Conn /\ c.count = fc[m].count - 1
      /\ fc[m].count > 1 => c.alive = fc[m].alive
      /\ fc[m].count = 1 => ~c.alive
      /\ c.dev_count = fc[m].dev_count /\ c.connected = fc[m].connected
      /\ c.initialized = fc[m].initialized /\ c.sb = fc[m].sb
      /\ c.listed = fc[m].listed /\ c.ctl = fc[m].ctl
  BY <1>6, <1>7, PutFields
<1> HIDE DEF c
<1>9. /\ Devices(m)' = d /\ CtlUsers(m)' = k - 1
      /\ \A n \in Mounts \ {m} : Devices(n)' = Devices(n) /\ CtlUsers(n)' = CtlUsers(n)
  BY <1>0, <1>1, <1>4, UserMoves
<1> HIDE DEF d, k
<1>10. MountOk(mpc[m], c, fs_info[m], mfile[m], init[m], d, k - 1, ctlsb)
  BY <1>2, <1>3, <1>6, <1>7, <1>8
     DEF MountOk, Own, Phases, Attached, Mounting, Unmounting
<1>11. k - 1 \in Nat
  BY <1>3
<1> DEFINE p == mpc[m]
           i == init[m]
<1>12. /\ mpc' = [mpc EXCEPT ![m] = p] /\ init' = [init EXCEPT ![m] = i] /\ p = mpc[m]
       /\ MountOk(p, c, fs_info[m], mfile[m], i, d, k - 1, ctlsb) /\ priv' = priv
  BY <1>4, <1>10
<1> HIDE DEF p, i
<1> QED
  BY <1>1, <1>3, <1>4, <1>5, <1>9, <1>11, <1>12, RefStep

(* fuse_dev_release: the device's requests end, its reference is put.      *)
LEMMA DevRelease ==
    ASSUME MountInv, NEW f \in Files, M!fuse_dev_release(f)
    PROVE  MountInv'
<1>0. PICK m : m = priv[f]
  OBVIOUS
<1>1. /\ m \in Mounts /\ mpc[m] \in Attached \cup {"gone"} /\ Devices(m) > 0
      /\ registered # {} /\ m # Nil
  BY <1>0, FileMount DEF M!fuse_dev_release
<1> DEFINE ends == M!InFlight(m) /\ (initdev[m] = f \/ fc[m].dev_count = 1)
           i == IF ends THEN "ended" ELSE init[m]
           b == fc[m].connected /\ fc[m].dev_count # 1
           z == fc[m].initialized \/ (fc[m].connected /\ fc[m].dev_count = 1)
           x(read) == IF fc[m].destroy = "sent" /\ (read \/ fc[m].dev_count = 1)
                      THEN "answered" ELSE fc[m].destroy
           a(read) == [fc[m] EXCEPT !.dev_count = fc[m].dev_count - 1, !.connected = b,
                                    !.initialized = z, !.destroy = x(read)]
           e(read) == IF ends THEN M!init_error(a(read)) ELSE a(read)
           d == Devices(m)
           k == CtlUsers(m)
<1>2. PICK read \in BOOLEAN : fc' = [fc EXCEPT ![m] = M!fuse_conn_put(e(read))]
  BY <1>0 DEF M!fuse_dev_release
<1>3. /\ mpc' = [mpc EXCEPT ![m] = mpc[m]] /\ init' = [init EXCEPT ![m] = i]
      /\ priv' = [priv EXCEPT ![f] = Nil]
      /\ UNCHANGED <<fs_info, mfile, uopen, notify, ctlsb, registered>> /\ UNCHANGED user
  BY <1>0, <1>1, SameMount DEF M!fuse_dev_release
<1>4. MountOk(mpc[m], fc[m], fs_info[m], mfile[m], init[m], d, k, ctlsb)
  BY <1>1 DEF MountInv, Mount
<1>5. d \in Nat /\ k \in Nat /\ d > 0
  BY <1>1, CountsNat
<1>6. fc[m] \in Conn /\ fc[m].count \in Nat /\ fc[m].dev_count \in Nat
      /\ fc[m].connected \in BOOLEAN /\ fc[m].initialized \in BOOLEAN
      /\ fc[m].destroy \in {"none", "alloc", "sent", "answered"}
      /\ init[m] \in {"none", "queued", "read", "ended"}
  BY <1>4 DEF MountOk, Conn
<1>7. fc[m].dev_count = d /\ fc[m].count > 0
  <2> HIDE DEF d, k
  <2> QED
    BY <1>4, <1>5, <1>6 DEF MountOk, Own
<1>8. LET r == a(read)
      IN  /\ r \in Conn /\ r.dev_count = fc[m].dev_count - 1
          /\ r.connected = b /\ r.initialized = z
          /\ r.alive = fc[m].alive /\ r.count = fc[m].count /\ r.sb = fc[m].sb
          /\ r.listed = fc[m].listed /\ r.ctl = fc[m].ctl
  <2>1. x(read) \in {"none", "alloc", "sent", "answered"} /\ b \in BOOLEAN /\ z \in BOOLEAN
        /\ fc[m].dev_count > 0
    BY <1>5, <1>6, <1>7
  <2>2. a(read) = ReleaseConn(fc[m], b, z, x(read))
    BY DEF ReleaseConn
  <2> HIDE DEF x, b, z, a
  <2> QED
    BY <1>6, <2>1, <2>2, ReleaseFields
<1> HIDE DEF a, b, z
<1>9. LET r == e(read)
      IN  /\ r \in Conn /\ r.dev_count = a(read).dev_count
          /\ r.connected = a(read).connected
          /\ r.initialized = IF ends THEN TRUE ELSE a(read).initialized
          /\ r.alive = a(read).alive /\ r.count = a(read).count /\ r.sb = a(read).sb
          /\ r.listed = a(read).listed /\ r.ctl = a(read).ctl
  <2>1. LET r == M!init_error(a(read))
        IN  /\ r \in Conn /\ r.dev_count = a(read).dev_count
            /\ r.connected = a(read).connected /\ r.initialized = TRUE
            /\ r.alive = a(read).alive /\ r.count = a(read).count /\ r.sb = a(read).sb
            /\ r.listed = a(read).listed /\ r.ctl = a(read).ctl
    BY <1>8, InitErrorFields
  <2> HIDE DEF ends
  <2>2. CASE ends
    BY <2>1, <2>2
  <2>3. CASE ~ends
    BY <1>8, <2>3
  <2> QED
    BY <2>2, <2>3
<1> HIDE DEF e
<1> DEFINE c == M!fuse_conn_put(e(read))
<1>10. /\ c \in Conn /\ c.count = fc[m].count - 1
       /\ fc[m].count > 1 => c.alive = fc[m].alive
       /\ fc[m].count = 1 => ~c.alive
       /\ c.dev_count = fc[m].dev_count - 1 /\ c.connected = b
       /\ c.initialized = IF ends THEN TRUE ELSE z
       /\ c.sb = fc[m].sb /\ c.listed = fc[m].listed /\ c.ctl = fc[m].ctl
  <2>1. e(read) \in Conn /\ e(read).count = fc[m].count /\ e(read).count > 0
    BY <1>7, <1>8, <1>9
  <2>2. /\ c \in Conn /\ c.count = e(read).count - 1
        /\ e(read).count > 1 => c.alive = e(read).alive
        /\ e(read).count = 1 => ~c.alive
        /\ c.dev_count = e(read).dev_count /\ c.connected = e(read).connected
        /\ c.initialized = e(read).initialized /\ c.sb = e(read).sb
        /\ c.listed = e(read).listed /\ c.ctl = e(read).ctl
    BY <2>1, PutFields
  <2> HIDE DEF c, ends
  <2> QED
    BY <1>8, <1>9, <2>1, <2>2
<1>11. fc' = [fc EXCEPT ![m] = c]
  BY <1>2
<1> HIDE DEF c
<1>12. FilesType'
  BY <1>3 DEF MountInv, FilesType
<1>13. /\ Devices(m)' = d - 1 /\ CtlUsers(m)' = k
       /\ \A n \in Mounts \ {m} : Devices(n)' = Devices(n) /\ CtlUsers(n)' = CtlUsers(n)
  BY <1>0, <1>1, <1>3, PrivMoves
<1> HIDE DEF d, k
<1>14. MountOk(mpc[m], c, fs_info[m], mfile[m], i, d - 1, k, ctlsb)
  <2>1. i \in {"none", "queued", "read", "ended"}
    BY <1>6
  <2>2. ASSUME i = "ended", init[m] = "ended" => fc[m].initialized PROVE c.initialized
    <3>1. CASE ends
      BY <1>10, <3>1
    <3>2. CASE ~ends
      BY <1>10, <2>2, <3>2 DEF z
    <3> QED
      BY <3>1, <3>2
  <2>3. c.connected => fc[m].connected /\ d # 1
    BY <1>7, <1>10 DEF b
  <2> HIDE DEF i, ends
  <2>4. /\ c \in Conn /\ c.count = fc[m].count - 1
        /\ fc[m].count > 1 => c.alive = fc[m].alive
        /\ fc[m].count = 1 => ~c.alive
        /\ c.dev_count = d - 1
        /\ c.sb = fc[m].sb /\ c.listed = fc[m].listed /\ c.ctl = fc[m].ctl
    BY <1>7, <1>10
  <2> QED
    BY <1>1, <1>4, <1>5, <1>6, <1>7, <2>1, <2>2, <2>3, <2>4
       DEF MountOk, Own, Phases, Attached, Mounting, Unmounting
<1>15. d - 1 \in Nat
  BY <1>5
<1> DEFINE p == mpc[m]
<1>16. /\ mpc' = [mpc EXCEPT ![m] = p] /\ p = mpc[m]
       /\ MountOk(p, c, fs_info[m], mfile[m], i, d - 1, k, ctlsb)
  BY <1>3, <1>14
<1> HIDE DEF p, i, ends
<1> QED
  BY <1>1, <1>3, <1>5, <1>11, <1>12, <1>13, <1>15, <1>16, RefStep

-----------------------------------------------------------------------------
(* Steps that leave every mount as it is.                                  *)
LEMMA MountsSame ==
    ASSUME MountInv, UNCHANGED <<mpc, fs_info, fc, mfile, init, priv, ctlsb, user>>,
           FilesType', NotifyInv', ModuleInv'
    PROVE  MountInv'
<1>1. MountType'
  BY DEF MountInv, MountType
<1>2. \A m \in Mounts : Mount(m)'
  <2>1. ASSUME NEW m \in Mounts PROVE Mount(m)'
    <3>1. Mount(m)
      BY DEF MountInv
    <3> QED
      BY <3>1 DEF Mount, Devices, CtlUsers
  <2> QED
    BY <2>1
<1> QED
  BY <1>1, <1>2 DEF MountInv

LEMMA DevOpen ==
    ASSUME MountInv, NEW f \in Files, M!dev_open(f)
    PROVE  MountInv'
<1>1. FilesType' /\ NotifyInv'
  BY DEF MountInv, FilesType, NotifyInv, M!dev_open
<1>2. ModuleInv'
  BY LoadedNotEmpty DEF MountInv, ModuleInv, M!dev_open
<1> QED
  BY <1>1, <1>2, MountsSame DEF M!dev_open

LEMMA Close ==
    ASSUME MountInv, NEW f \in Files, M!close(f)
    PROVE  MountInv'
<1>1. FilesType' /\ NotifyInv'
  BY DEF MountInv, FilesType, NotifyInv, M!close
<1>2. ModuleInv'
  BY DEF MountInv, ModuleInv, FilesType, M!close
<1> QED
  BY <1>1, <1>2, MountsSame DEF M!close

(* fc->sb is set: the super block is not being shut down.                  *)
LEMMA Notify ==
    ASSUME MountInv, NEW f \in Files, M!fuse_notify(f)
    PROVE  MountInv'
<1>1. priv[f] \in Mounts /\ Devices(priv[f]) > 0
  BY FileMount DEF M!fuse_notify
<1>2. MountOk(mpc[priv[f]], fc[priv[f]], fs_info[priv[f]], mfile[priv[f]], init[priv[f]],
              Devices(priv[f]), CtlUsers(priv[f]), ctlsb)
  BY <1>1 DEF MountInv, Mount
<1>3. mpc[priv[f]] \in Mounting
  BY <1>1, <1>2 DEF MountOk, M!fuse_notify
<1>4. FilesType' /\ NotifyInv'
  BY <1>1, <1>3 DEF MountInv, FilesType, NotifyInv, M!fuse_notify
<1>5. ModuleInv'
  BY DEF MountInv, ModuleInv, M!fuse_notify
<1> QED
  BY <1>4, <1>5, MountsSame DEF M!fuse_notify

LEMMA NotifyEnd ==
    ASSUME MountInv, NEW f \in Files, M!fuse_notify_end(f)
    PROVE  MountInv'
<1>1. FilesType' /\ NotifyInv'
  BY DEF MountInv, FilesType, NotifyInv, M!fuse_notify_end
<1>2. ModuleInv'
  BY DEF MountInv, ModuleInv, M!fuse_notify_end
<1> QED
  BY <1>1, <1>2, MountsSame DEF M!fuse_notify_end

LEMMA CtlDies ==
    ASSUME MountInv, M!ctl_add_dies
    PROVE  MountInv'
<1>1. FilesType' /\ NotifyInv' /\ ModuleInv'
  BY DEF MountInv, FilesType, NotifyInv, ModuleInv, M!ctl_add_dies
<1> QED
  BY <1>1, MountsSame DEF M!ctl_add_dies

(* fuse_init and fuse_exit: all registrations or none.                     *)
LEMMA Registrations ==
    M!Done(8) = {"inode_cache", "fuseblk", "fuse", "req_cache", "miscdev", "kobj",
                 "mount_point", "fusectl"}
<1>1. 1..8 = {1, 2, 3, 4, 5, 6, 7, 8}
  OBVIOUS
<1>2. M!Done(8) = {M!Stages[1], M!Stages[2], M!Stages[3], M!Stages[4], M!Stages[5],
                   M!Stages[6], M!Stages[7], M!Stages[8]}
  BY <1>1 DEF M!Done
<1> QED
  BY <1>2 DEF M!Stages

LEMMA DoneSets ==
    /\ M!Done(0) = {} /\ M!Done(1) = {"inode_cache"}
    /\ M!Done(2) = {"inode_cache", "fuseblk"} /\ M!Done(3) = {"inode_cache", "fuseblk", "fuse"}
    /\ M!Done(4) = {"inode_cache", "fuseblk", "fuse", "req_cache"}
    /\ M!Done(5) = {"inode_cache", "fuseblk", "fuse", "req_cache", "miscdev"}
    /\ M!Done(6) = {"inode_cache", "fuseblk", "fuse", "req_cache", "miscdev", "kobj"}
    /\ M!Done(7) = {"inode_cache", "fuseblk", "fuse", "req_cache", "miscdev", "kobj",
                    "mount_point"}
<1>1. /\ 1..0 = {} /\ 1..1 = {1} /\ 1..2 = {1, 2} /\ 1..3 = {1, 2, 3}
      /\ 1..4 = {1, 2, 3, 4} /\ 1..5 = {1, 2, 3, 4, 5} /\ 1..6 = {1, 2, 3, 4, 5, 6}
      /\ 1..7 = {1, 2, 3, 4, 5, 6, 7}
  OBVIOUS
<1>2. /\ M!Done(0) = {} /\ M!Done(1) = {M!Stages[1]}
      /\ M!Done(2) = {M!Stages[1], M!Stages[2]}
      /\ M!Done(3) = {M!Stages[1], M!Stages[2], M!Stages[3]}
      /\ M!Done(4) = {M!Stages[1], M!Stages[2], M!Stages[3], M!Stages[4]}
      /\ M!Done(5) = {M!Stages[1], M!Stages[2], M!Stages[3], M!Stages[4], M!Stages[5]}
      /\ M!Done(6) = {M!Stages[1], M!Stages[2], M!Stages[3], M!Stages[4], M!Stages[5],
                      M!Stages[6]}
      /\ M!Done(7) = {M!Stages[1], M!Stages[2], M!Stages[3], M!Stages[4], M!Stages[5],
                      M!Stages[6], M!Stages[7]}
  BY <1>1 DEF M!Done
<1> QED
  BY <1>2 DEF M!Stages

LEMMA ModuleInit ==
    ASSUME MountInv, NEW j \in 1..9, M!fuse_init(j)
    PROVE  MountInv'
<1>1. FilesType' /\ NotifyInv'
  BY DEF MountInv, FilesType, NotifyInv, M!fuse_init
<1>2. registered' \in {{}, M!Done(8)}
  <2>1. registered' = M!Unregister(j)
    BY DEF M!fuse_init
  <2>2. CASE j = 9
    <3>1. j \notin 1..3 /\ j \notin 4..5 /\ j \notin 6..7 /\ j # 8
      BY <2>2
    <3> QED
      BY <2>1, <3>1, Zenon DEF M!Unregister
  <2>3. CASE j # 9
    BY <2>1, <2>3, DoneSets
       DEF M!Unregister, M!fuse_fs_cleanup, M!fuse_dev_cleanup, M!fuse_sysfs_cleanup
  <2> QED
    BY <2>2, <2>3
<1>3. ModuleInv'
  BY <1>2 DEF MountInv, ModuleInv, M!fuse_init
<1> QED
  BY <1>1, <1>3, MountsSame DEF M!fuse_init

LEMMA ModuleExit ==
    ASSUME MountInv, M!fuse_exit
    PROVE  MountInv'
<1>1. FilesType' /\ NotifyInv'
  BY DEF MountInv, FilesType, NotifyInv, M!fuse_exit
<1>2. registered' = {}
  BY Registrations DEF M!fuse_exit, M!Loaded, M!fuse_fs_cleanup, M!fuse_dev_cleanup,
     M!fuse_sysfs_cleanup
<1>3. ModuleInv'
  BY <1>2 DEF ModuleInv, M!fuse_exit
<1> QED
  BY <1>1, <1>3, MountsSame DEF M!fuse_exit

-----------------------------------------------------------------------------
(* The control file system takes in or lets go of every connection.        *)
LEMMA CtlMount ==
    ASSUME MountInv, NEW b \in [Mounts -> BOOLEAN], ctlsb' \in BOOLEAN,
           \A m \in Mounts : b[m] => fc[m].listed /\ ctlsb',
           fc' = [m \in Mounts |-> [fc[m] EXCEPT !.ctl = b[m]]],
           UNCHANGED <<mpc, fs_info, mfile, init, uopen, priv, notify, user, registered>>
    PROVE  MountInv'
<1>1. MountType' /\ FilesType' /\ NotifyInv' /\ ModuleInv'
  BY DEF MountInv, MountType, FilesType, NotifyInv, ModuleInv
<1>2. ASSUME NEW m \in Mounts PROVE Mount(m)'
  <2> DEFINE r == [fc[m] EXCEPT !.ctl = b[m]]
             d == Devices(m)
             k == CtlUsers(m)
  <2>1. MountOk(mpc[m], fc[m], fs_info[m], mfile[m], init[m], d, k, ctlsb)
    BY DEF MountInv, Mount
  <2>2. fc[m] \in Conn /\ b[m] \in BOOLEAN
    BY <2>1 DEF MountOk
  <2>3. /\ r \in Conn /\ r.ctl = b[m]
        /\ r.alive = fc[m].alive /\ r.count = fc[m].count /\ r.dev_count = fc[m].dev_count
        /\ r.connected = fc[m].connected /\ r.initialized = fc[m].initialized
        /\ r.sb = fc[m].sb /\ r.listed = fc[m].listed
    BY <2>2, CtlFields
  <2>4. fc'[m] = r
    OBVIOUS
  <2>5. Devices(m)' = d /\ CtlUsers(m)' = k
    BY DEF Devices, CtlUsers
  <2> HIDE DEF r, d, k
  <2>6. MountOk(mpc[m], r, fs_info[m], mfile[m], init[m], d, k, ctlsb')
    BY <2>1, <2>3 DEF MountOk
  <2> QED
    BY <2>4, <2>5, <2>6 DEF Mount
<1> QED
  BY <1>1, <1>2 DEF MountInv

LEMMA CtlFill ==
    ASSUME MountInv, M!fuse_ctl_fill_super
    PROVE  MountInv'
<1> DEFINE b == [m \in Mounts |-> fc[m].listed]
<1>1. b \in [Mounts -> BOOLEAN]
  <2>1. ASSUME NEW m \in Mounts PROVE fc[m].listed \in BOOLEAN
    BY DEF MountInv, Mount, MountOk, Conn
  <2> QED
    BY <2>1
<1>2. fc' = [m \in Mounts |-> [fc[m] EXCEPT !.ctl = b[m]]]
  BY DEF M!fuse_ctl_fill_super
<1>3. \A m \in Mounts : b[m] => fc[m].listed /\ ctlsb'
  BY DEF M!fuse_ctl_fill_super
<1> HIDE DEF b
<1> QED
  BY <1>1, <1>2, <1>3, CtlMount DEF M!fuse_ctl_fill_super

LEMMA CtlKill ==
    ASSUME MountInv, M!fuse_ctl_kill_sb
    PROVE  MountInv'
<1> DEFINE b == [m \in Mounts |-> FALSE]
<1>1. b \in [Mounts -> BOOLEAN]
  OBVIOUS
<1>2. fc' = [m \in Mounts |-> [fc[m] EXCEPT !.ctl = b[m]]]
  BY DEF M!fuse_ctl_kill_sb
<1>3. \A m \in Mounts : b[m] => fc[m].listed /\ ctlsb'
  OBVIOUS
<1> HIDE DEF b
<1> QED
  BY <1>1, <1>2, <1>3, CtlMount DEF M!fuse_ctl_kill_sb

LEMMA MountInvInit == M!Init => MountInv
<1> SUFFICES ASSUME M!Init PROVE MountInv
  OBVIOUS
<1>1. MountType /\ FilesType
  BY DEF M!Init, MountType, FilesType
<1>2. NotifyInv /\ ModuleInv
  BY DEF M!Init, NotifyInv, ModuleInv
<1>3. ASSUME NEW m \in Mounts PROVE Mount(m)
  <2>1. Devices(m) \in Nat /\ ~(Devices(m) > 0) /\ CtlUsers(m) \in Nat
        /\ ~(CtlUsers(m) > 0)
    <3>1. (\A f \in Files : priv[f] # m) /\ (\A u \in Users : user[u] # m)
      BY DEF M!Init
    <3> QED
      BY <3>1, CountsNat
  <2>2. Devices(m) = 0 /\ CtlUsers(m) = 0
    BY <2>1
  <2>3. mpc[m] = "idle" /\ fc[m] = M!NoConn /\ fs_info[m] = FALSE /\ mfile[m] = Nil
        /\ init[m] = "none"
    BY DEF M!Init
  <2>4. MountOk("idle", M!NoConn, FALSE, Nil, "none", 0, 0, ctlsb)
    BY NewFields DEF MountOk, Own, Phases, Attached, Mounting, Unmounting
  <2> QED
    BY <2>2, <2>3, <2>4 DEF Mount
<1> QED
  BY <1>1, <1>2, <1>3 DEF MountInv

LEMMA MountInvStep == MountInv /\ [M!Next]_M!mvars => MountInv'
<1> SUFFICES ASSUME MountInv, [M!Next]_M!mvars PROVE MountInv'
  OBVIOUS
<1>1. CASE UNCHANGED M!mvars
  <2>1. FilesType' /\ NotifyInv' /\ ModuleInv'
    BY <1>1 DEF M!mvars, MountInv, FilesType, NotifyInv, ModuleInv
  <2> QED
    BY <1>1, <2>1, MountsSame DEF M!mvars
<1>2. ASSUME NEW j \in 1..9, M!fuse_init(j) PROVE MountInv'
  BY <1>2, ModuleInit
<1>3. ASSUME NEW m \in Mounts,
             \/ M!fuse_mount(m) \/ M!fill_super_setup(m) \/ M!fill_super_publish(m)
             \/ M!fill_super_unlock(m) \/ M!fill_super_fput(m) \/ M!fuse_send_init(m)
             \/ M!fuse_umount_begin(m) \/ M!fuse_kill_sb(m) \/ M!fuse_send_destroy(m)
             \/ M!destroy_answered(m) \/ M!put_super_abort(m) \/ M!fuse_put_super(m)
      PROVE  MountInv'
  BY <1>3, MountStarts, FillSetup, FillPublish, FillUnlock, FillFput, SendInit,
     UmountBegin, KillSb, SendDestroy, DestroyAnswered, PutSuperAbort, PutSuper
<1>4. ASSUME NEW f \in Files,
             \/ M!dev_open(f) \/ M!close(f) \/ M!fuse_dev_release(f) \/ M!read_init(f)
             \/ M!process_init_reply(f) \/ M!answer_destroy(f) \/ M!fuse_notify(f)
             \/ M!fuse_notify_end(f)
      PROVE  MountInv'
  BY <1>4, DevOpen, Close, DevRelease, ReadInit, InitReply, AnswerDestroy, Notify,
     NotifyEnd
<1>5. ASSUME NEW f \in Files, NEW old \in Files, M!fuse_device_clone(old, f)
      PROVE  MountInv'
  BY <1>5, DeviceClone
<1>6. ASSUME NEW u \in Users, M!fuse_conn_abort_write(u) \/ M!ctl_put(u)
      PROVE  MountInv'
  BY <1>6, AbortWrite, CtlPut
<1>7. ASSUME NEW u \in Users, NEW m \in Mounts, M!fuse_ctl_file_conn_get(u, m)
      PROVE  MountInv'
  BY <1>7, CtlGet
<1>8. ASSUME M!fuse_exit \/ M!fuse_ctl_fill_super \/ M!fuse_ctl_kill_sb \/ M!ctl_add_dies
      PROVE  MountInv'
  BY <1>8, ModuleExit, CtlFill, CtlKill, CtlDies
<1> QED
  BY <1>1, <1>2, <1>3, <1>4, <1>5, <1>6, <1>7, <1>8, Zenon DEF M!Next

LEMMA MountInvHolds == M!Spec => []MountInv
<1>1. M!Init => MountInv
  BY MountInvInit
<1>2. MountInv /\ [M!Next]_M!mvars => MountInv'
  BY MountInvStep
<1> QED
  BY <1>1, <1>2, PTL DEF M!Spec

(* fuse_conn_get, fuse_conn_put, fuse_dev_free, fuse_ctl_remove_conn,      *)
(* fuse_init, fuse_exit: for any number of mounts, device files and        *)
(* control file operations, however they interleave, fc->count is the      *)
(* number of users of a connection, it is freed when the last one lets go, *)
(* no control file leads to a freed one, and the module stays loaded.      *)
THEOREM ConnectionsSafe == M!Spec => []ConnSafe
<1>1. MountInv => ConnSafe
  BY MountInvSafe
<1> QED
  BY <1>1, MountInvHolds, PTL

(* fuse_dev_release, fuse_abort_conn, process_init_reply: a mounted        *)
(* connection without a device file is aborted, and the end of INIT        *)
(* releases whoever waits for it.                                          *)
THEOREM ConnectionsServed == M!Spec => []Served
<1>1. MountInv => Served
  BY MountInvSafe
<1> QED
  BY <1>1, MountInvHolds, PTL

(* killsb: no notification uses a super block that is being shut down.     *)
THEOREM SuperBlockLive == M!Spec => []SbLive
<1>1. MountInv => SbLive
  BY MountInvSafe
<1> QED
  BY <1>1, MountInvHolds, PTL

-----------------------------------------------------------------------------
(* Cuse.                                                                   *)
CuseConn == [alive : BOOLEAN, count : Nat, connected : BOOLEAN, listed : BOOLEAN,
             dev : BOOLEAN]
ChanRefs(h) == IF h \in {"open", "unlisted", "removed"} THEN 2
               ELSE IF h = "leaked" THEN 1 ELSE 0
Opens(c) == Cardinality(PointTo(Clients, conn, c))

(* One channel: its state h, its connection k, INIT r, and the number n of *)
(* device files opened on it.  The table has devices of open channels      *)
(* only, a device is added when INIT has ended, and nobody opens it before.*)
ChanOk(h, k, r, n) ==
    /\ h \in {"closed", "open", "leaked", "unlisted", "removed", "released"}
    /\ k \in CuseConn /\ r \in {"none", "sent", "region", "ended"}
    /\ k.count = ChanRefs(h) + n
    /\ k.alive <=> k.count > 0
    /\ k.listed => k.dev /\ h = "open"
    /\ k.dev => r = "ended" /\ h \in {"open", "unlisted"}
    /\ r = "region" => h = "open"
    /\ h = "closed" => n = 0

Chan(c) == ChanOk(chan[c], cc[c], reply[c], Opens(c))

CuseType ==
    /\ chan = [c \in Channels |-> chan[c]] /\ cc = [c \in Channels |-> cc[c]]
    /\ reply = [c \in Channels |-> reply[c]] /\ chosen = [c \in Channels |-> chosen[c]]
    /\ region \in [Devts -> Channels \cup {Nil}]
    /\ client \in [Clients -> {"closed", "opening", "open"}]
    /\ conn \in [Clients -> Channels \cup {Nil}]

(* A client that is opening or using a device has a connection.            *)
ClientInv == \A u \in Clients : client[u] = "closed" <=> conn[u] = Nil

(* The channels that have reserved a number, and the numbers reserved.     *)
Holds(c) == cc[c].dev \/ reply[c] = "region"
RegionInv ==
    /\ \A c \in Channels : Holds(c) => chosen[c][1] \in Devts /\ region[chosen[c][1]] = c
    /\ \A d \in Devts : region[d] # Nil => Holds(region[d]) /\ chosen[region[d]][1] = d

(* No two devices in the table have one name.                              *)
NameInv ==
    \A c, e \in Channels : c # e /\ cc[c].listed /\ cc[e].listed
                           => chosen[c][2] # chosen[e][2]

CuseInv ==
    /\ CuseType
    /\ \A c \in Channels : Chan(c)
    /\ ClientInv /\ RegionInv /\ NameInv

LEMMA SameCardinalityU == ASSUME NEW S PROVE U!Cardinality(S) = Cardinality(S)
  BY Zenon DEF U!Cardinality, Cardinality

LEMMA OpensNat ==
    ASSUME NEW c
    PROVE  Opens(c) \in Nat /\ (Opens(c) > 0 <=> \E u \in Clients : conn[u] = c)
<1>1. Cardinality(PointTo(Clients, conn, c)) \in Nat
      /\ (Cardinality(PointTo(Clients, conn, c)) = 0 <=> PointTo(Clients, conn, c) = {})
  BY CountNat
<1>2. PointTo(Clients, conn, c) # {} <=> \E u \in Clients : conn[u] = c
  BY DEF PointTo
<1>3. ASSUME NEW n \in Nat PROVE n > 0 <=> n # 0
  OBVIOUS
<1> QED
  BY <1>1, <1>2, <1>3 DEF Opens

LEMMA CuseInvSafe == CuseInv => CuseBalanced
<1> SUFFICES ASSUME CuseInv PROVE CuseBalanced
  OBVIOUS
<1>1. ASSUME NEW c \in Channels
      PROVE  ChanOk(chan[c], cc[c], reply[c], Opens(c)) /\ Opens(c) \in Nat
  BY OpensNat DEF CuseInv, Chan
<1>2. U!CuseRefs
  <2>1. ASSUME NEW c \in Channels
        PROVE  LET refs == (IF chan[c] \in {"open", "unlisted", "removed"} THEN 2
                            ELSE IF chan[c] = "leaked" THEN 1 ELSE 0) + Opens(c)
               IN  cc[c].count = refs /\ (cc[c].alive <=> refs > 0)
    BY <1>1 DEF ChanOk, ChanRefs
  <2>2. ASSUME NEW c \in Channels
        PROVE  Opens(c) = Cardinality({u \in Clients : conn[u] = c})
    BY Zenon DEF Opens, PointTo
  <2> QED
    BY <2>1, <2>2, SameCardinalityU DEF U!CuseRefs
<1>3. U!TableUnique
  <2>1. ASSUME NEW c \in Channels, cc[c].listed
        PROVE  /\ chan[c] = "open" /\ cc[c].dev /\ region[chosen[c][1]] = c
               /\ \A e \in Channels \ {c} : cc[e].listed => chosen[e][2] # chosen[c][2]
    BY <1>1, <2>1 DEF ChanOk, CuseInv, RegionInv, Holds, NameInv
  <2> QED
    BY <2>1 DEF U!TableUnique
<1>4. U!RegionReturned
  BY DEF U!RegionReturned, CuseInv, RegionInv, Holds
<1> QED
  BY <1>2, <1>3, <1>4 DEF CuseBalanced, U!CuseBalanced

(* A step of one channel.                                                  *)
LEMMA OneChan ==
    ASSUME CuseInv, NEW c \in Channels, NEW h, NEW k, NEW r, NEW n \in Nat,
           chan' = [chan EXCEPT ![c] = h], cc' = [cc EXCEPT ![c] = k],
           reply' = [reply EXCEPT ![c] = r],
           \A e \in Channels \ {c} : Opens(e)' = Opens(e),
           Opens(c)' = n, ChanOk(h, k, r, n)
    PROVE  \A e \in Channels : Chan(e)'
<1>1. chan'[c] = h /\ cc'[c] = k /\ reply'[c] = r
  BY DEF CuseInv, CuseType
<1>2. Chan(c)'
  BY <1>1 DEF Chan
<1>3. ASSUME NEW e \in Channels \ {c} PROVE Chan(e)'
  <2>1. Chan(e)
    BY DEF CuseInv
  <2>2. chan'[e] = chan[e] /\ cc'[e] = cc[e] /\ reply'[e] = reply[e]
    BY DEF CuseInv, CuseType
  <2> QED
    BY <2>1, <2>2 DEF Chan
<1> QED
  BY <1>2, <1>3

(* One that opens and closes no device file, and whose reservation and     *)
(* table entry stay as they are, or are gone from the table.               *)
LEMMA OnlyChan ==
    ASSUME CuseInv, NEW c \in Channels, NEW h, NEW k, NEW r,
           chan' = [chan EXCEPT ![c] = h], cc' = [cc EXCEPT ![c] = k],
           reply' = [reply EXCEPT ![c] = r],
           UNCHANGED <<chosen, region, client, conn>>,
           \A n \in Nat : ChanOk(chan[c], cc[c], reply[c], n) => ChanOk(h, k, r, n),
           Holds(c) <=> k.dev \/ r = "region",
           k.listed => cc[c].listed
    PROVE  CuseInv'
<1>1. CuseType'
  BY DEF CuseInv, CuseType
<1>2. \A e \in Channels : Chan(e)'
  <2>1. Opens(c) \in Nat /\ ChanOk(chan[c], cc[c], reply[c], Opens(c))
    BY OpensNat DEF CuseInv, Chan
  <2>2. ChanOk(h, k, r, Opens(c))
    BY <2>1
  <2>3. \A e \in Channels : Opens(e)' = Opens(e)
    BY DEF Opens
  <2> QED
    BY <2>1, <2>2, <2>3, OneChan
<1>3. ClientInv'
  BY DEF CuseInv, ClientInv
<1>4. \A e \in Channels : cc'[e].dev \/ reply'[e] = "region"
                          <=> cc[e].dev \/ reply[e] = "region"
  BY DEF CuseInv, CuseType, Holds
<1>5. RegionInv'
  <2>1. region \in [Devts -> Channels \cup {Nil}]
    BY DEF CuseInv, CuseType
  <2>2. RegionInv
    BY DEF CuseInv
  <2> QED
    BY <1>4, <2>1, <2>2 DEF RegionInv, Holds
<1>6. \A e \in Channels : cc'[e].listed => cc[e].listed
  BY DEF CuseInv, CuseType
<1>7. NameInv'
  BY <1>6 DEF CuseInv, NameInv
<1> QED
  BY <1>1, <1>2, <1>3, <1>5, <1>7 DEF CuseInv

LEMMA SameChan ==
    ASSUME CuseInv, NEW c \in Channels
    PROVE  /\ chan = [chan EXCEPT ![c] = chan[c]] /\ cc = [cc EXCEPT ![c] = cc[c]]
           /\ reply = [reply EXCEPT ![c] = reply[c]]
  BY DEF CuseInv, CuseType

(* What the operators on a CUSE connection do to it.                       *)
LEMMA CusePut ==
    ASSUME NEW k \in CuseConn, k.count > 0
    PROVE  LET r == U!Put(k)
           IN  /\ r \in CuseConn /\ r.count = k.count - 1
               /\ k.count > 1 => r.alive = k.alive
               /\ k.count = 1 => ~r.alive
               /\ r.listed = k.listed /\ r.dev = k.dev
<1>1. k.count \in Nat
  BY DEF CuseConn
<1>2. CASE k.count > 1
  <2>1. k.count - 1 \in Nat
    BY <1>1, <1>2
  <2>2. U!Put(k) = [k EXCEPT !.count = k.count - 1]
    BY <1>2 DEF U!Put
  <2>3. ASSUME NEW n \in Nat
        PROVE  LET r == [k EXCEPT !.count = n]
               IN  /\ r \in CuseConn /\ r.count = n /\ r.alive = k.alive
                   /\ r.listed = k.listed /\ r.dev = k.dev
    BY ZenonT(30) DEF CuseConn
  <2> QED
    BY <1>2, <2>1, <2>2, <2>3
<1>3. CASE ~(k.count > 1)
  <2>1. k.count = 1
    BY <1>1, <1>3
  <2>2. U!Put(k) = [k EXCEPT !.count = 0, !.alive = FALSE]
    BY <1>3 DEF U!Put
  <2>3. LET r == [k EXCEPT !.count = 0, !.alive = FALSE]
        IN  /\ r \in CuseConn /\ r.count = 0 /\ r.alive = FALSE
            /\ r.listed = k.listed /\ r.dev = k.dev
    BY ZenonT(30) DEF CuseConn
  <2> QED
    BY <2>1, <2>2, <2>3
<1> QED
  BY <1>2, <1>3

LEMMA CuseGet ==
    ASSUME NEW k \in CuseConn
    PROVE  LET r == [k EXCEPT !.count = k.count + 1]
           IN  /\ r \in CuseConn /\ r.count = k.count + 1 /\ r.alive = k.alive
               /\ r.listed = k.listed /\ r.dev = k.dev
<1>1. k.count + 1 \in Nat
  BY DEF CuseConn
<1>2. ASSUME NEW n \in Nat
      PROVE  LET r == [k EXCEPT !.count = n]
             IN  /\ r \in CuseConn /\ r.count = n /\ r.alive = k.alive
                 /\ r.listed = k.listed /\ r.dev = k.dev
  BY ZenonT(30) DEF CuseConn
<1> QED
  BY <1>1, <1>2

LEMMA CuseFlags ==
    ASSUME NEW k \in CuseConn
    PROVE  /\ LET r == [k EXCEPT !.connected = FALSE]
              IN  /\ r \in CuseConn /\ r.count = k.count /\ r.alive = k.alive
                  /\ r.listed = k.listed /\ r.dev = k.dev
           /\ LET r == [k EXCEPT !.dev = TRUE, !.listed = TRUE]
              IN  /\ r \in CuseConn /\ r.count = k.count /\ r.alive = k.alive
                  /\ r.listed = TRUE /\ r.dev = TRUE
           /\ LET r == [k EXCEPT !.listed = FALSE]
              IN  /\ r \in CuseConn /\ r.count = k.count /\ r.alive = k.alive
                  /\ r.listed = FALSE /\ r.dev = k.dev
           /\ LET r == [k EXCEPT !.dev = FALSE]
              IN  /\ r \in CuseConn /\ r.count = k.count /\ r.alive = k.alive
                  /\ r.listed = k.listed /\ r.dev = FALSE
  BY ZenonT(60) DEF CuseConn

(* cuse_channel_open.                                                      *)
LEMMA ChannelOpen ==
    ASSUME CuseInv, NEW c \in Channels, U!cuse_channel_open(c)
    PROVE  CuseInv'
<1> DEFINE new == [U!NoConn EXCEPT !.alive = TRUE, !.count = 2, !.connected = TRUE]
           old == U!Put(new)
<1>1. /\ new \in CuseConn /\ new.count = 2 /\ new.alive = TRUE
      /\ new.listed = FALSE /\ new.dev = FALSE
  <2>1. U!NoConn \in CuseConn /\ U!NoConn.listed = FALSE /\ U!NoConn.dev = FALSE
    BY DEF U!NoConn, CuseConn
  <2>2. ASSUME NEW k \in CuseConn, NEW two \in Nat
        PROVE  LET r == [k EXCEPT !.alive = TRUE, !.count = two, !.connected = TRUE]
               IN  /\ r \in CuseConn /\ r.count = two /\ r.alive = TRUE
                   /\ r.listed = k.listed /\ r.dev = k.dev
    BY ZenonT(30) DEF CuseConn
  <2>3. 2 \in Nat
    OBVIOUS
  <2>4. /\ new \in CuseConn /\ new.count = 2 /\ new.alive = TRUE
        /\ new.listed = U!NoConn.listed /\ new.dev = U!NoConn.dev
    BY <2>1, <2>2, <2>3, Zenon
  <2> QED
    BY <2>1, <2>4
<1>2. /\ old \in CuseConn /\ old.count = 1 /\ old.alive = TRUE
      /\ old.listed = FALSE /\ old.dev = FALSE
  <2> HIDE DEF new
  <2> QED
    BY <1>1, CusePut
<1>3. ChanOk(chan[c], cc[c], reply[c], Opens(c)) /\ chan[c] = "closed"
  BY DEF CuseInv, Chan, U!cuse_channel_open
<1>4. ~Holds(c)
  BY <1>3 DEF Holds, ChanOk
<1>5. CASE /\ chan' = [chan EXCEPT ![c] = "open"] /\ cc' = [cc EXCEPT ![c] = new]
           /\ reply' = [reply EXCEPT ![c] = "sent"]
  <2> HIDE DEF new
  <2>1. ASSUME NEW n \in Nat, ChanOk(chan[c], cc[c], reply[c], n)
        PROVE  ChanOk("open", new, "sent", n)
    BY <1>1, <1>3, <2>1 DEF ChanOk, ChanRefs
  <2>2. UNCHANGED <<chosen, region, client, conn>>
    BY DEF U!cuse_channel_open
  <2>3. ~(new.dev \/ "sent" = "region") /\ ~new.listed
    BY <1>1
  <2>4. \A n \in Nat : ChanOk(chan[c], cc[c], reply[c], n) => ChanOk("open", new, "sent", n)
    BY <2>1
  <2> QED
    BY <1>4, <1>5, <2>2, <2>3, <2>4, OnlyChan
<1>6. CASE /\ chan' = [chan EXCEPT ![c] = "leaked"] /\ cc' = [cc EXCEPT ![c] = old]
           /\ UNCHANGED reply
  <2> DEFINE r == reply[c]
  <2>1. ASSUME NEW n \in Nat, ChanOk(chan[c], cc[c], reply[c], n)
        PROVE  ChanOk("leaked", old, r, n)
    <3> HIDE DEF old
    <3> QED
      BY <1>2, <1>3, <2>1 DEF ChanOk, ChanRefs
  <2>2. reply' = [reply EXCEPT ![c] = r] /\ r # "region"
    BY <1>4, <1>6, SameChan DEF Holds
  <2>3. UNCHANGED <<chosen, region, client, conn>>
    BY DEF U!cuse_channel_open
  <2>4. ~(old.dev \/ r = "region") /\ ~old.listed
    BY <1>2, <2>2
  <2>5. \A n \in Nat : ChanOk(chan[c], cc[c], reply[c], n) => ChanOk("leaked", old, r, n)
    BY <2>1
  <2>6. chan' = [chan EXCEPT ![c] = "leaked"] /\ cc' = [cc EXCEPT ![c] = old]
    BY <1>6
  <2> HIDE DEF old, r
  <2> QED
    BY <1>4, <2>2, <2>3, <2>4, <2>5, <2>6, OnlyChan
<1> QED
  BY <1>5, <1>6 DEF U!cuse_channel_open

(* INIT fails: the connection is aborted.                                  *)
LEMMA ReplyFails ==
    ASSUME CuseInv, NEW c \in Channels, chan[c] = "open", reply[c] = "sent",
           U!reply_fails(c), UNCHANGED <<chan, client, conn>>
    PROVE  CuseInv'
<1> DEFINE k == [cc[c] EXCEPT !.connected = FALSE]
           h == chan[c]
<1>1. ChanOk(chan[c], cc[c], reply[c], Opens(c))
  BY DEF CuseInv, Chan
<1>2. cc[c] \in CuseConn
  BY <1>1 DEF ChanOk
<1>3. /\ k \in CuseConn /\ k.count = cc[c].count /\ k.alive = cc[c].alive
      /\ k.listed = cc[c].listed /\ k.dev = cc[c].dev
  BY <1>2, CuseFlags
<1>4. /\ chan' = [chan EXCEPT ![c] = h] /\ cc' = [cc EXCEPT ![c] = k]
      /\ reply' = [reply EXCEPT ![c] = "ended"]
      /\ UNCHANGED <<chosen, region, client, conn>>
  BY SameChan DEF U!reply_fails
<1>5. ASSUME NEW n \in Nat, ChanOk(chan[c], cc[c], reply[c], n)
      PROVE  ChanOk(h, k, "ended", n)
  <2> HIDE DEF k
  <2> QED
    BY <1>3, <1>5 DEF ChanOk
<1>6. Holds(c) <=> k.dev
  BY <1>3 DEF Holds
<1> HIDE DEF h, k
<1> QED
  BY <1>3, <1>4, <1>5, <1>6, OnlyChan

(* The number is reserved for the channel, which has none yet.             *)
LEMMA ReplyReserves ==
    ASSUME CuseInv, NEW c \in Channels, chan[c] = "open", reply[c] = "sent",
           NEW d \in Devts, NEW name, region[d] = Nil,
           region' = [region EXCEPT ![d] = c], chosen' = [chosen EXCEPT ![c] = <<d, name>>],
           reply' = [reply EXCEPT ![c] = "region"],
           UNCHANGED <<cc, chan, client, conn>>
    PROVE  CuseInv'
<1> DEFINE h == chan[c]
           k == cc[c]
           n == Opens(c)
<1>1. ChanOk(h, k, reply[c], n) /\ n \in Nat
  BY OpensNat DEF CuseInv, Chan
<1>2. ~Holds(c) /\ ~cc[c].listed
  BY <1>1 DEF ChanOk, Holds
<1>3. ChanOk(h, k, "region", n)
  BY <1>1 DEF ChanOk
<1>4. chan' = [chan EXCEPT ![c] = h] /\ cc' = [cc EXCEPT ![c] = k]
  BY SameChan
<1>5. (\A e \in Channels : Opens(e)' = Opens(e)) /\ Opens(c)' = n
  BY DEF Opens
<1>6. \A e \in Channels : Chan(e)'
  <2> HIDE DEF h, k, n
  <2> QED
    BY <1>1, <1>3, <1>4, <1>5, OneChan
<1>7. CuseType'
  BY DEF CuseInv, CuseType
<1>8. ClientInv'
  BY DEF CuseInv, ClientInv
<1>9. /\ chosen'[c] = <<d, name>> /\ chosen'[c][1] = d /\ region'[d] = c
      /\ reply'[c] = "region"
      /\ \A e \in Channels \ {c} : chosen'[e] = chosen[e] /\ reply'[e] = reply[e]
      /\ \A g \in Devts \ {d} : region'[g] = region[g]
  BY DEF CuseInv, CuseType
<1>10. RegionInv'
  <2>1. ASSUME NEW e \in Channels, cc'[e].dev \/ reply'[e] = "region"
        PROVE  chosen'[e][1] \in Devts /\ region'[chosen'[e][1]] = e
    <3>1. CASE e = c
      BY <1>9, <3>1
    <3>2. CASE e # c
      <4>1. Holds(e) /\ chosen'[e] = chosen[e]
        BY <1>9, <2>1, <3>2 DEF Holds
      <4>2. chosen[e][1] \in Devts /\ region[chosen[e][1]] = e
        BY <4>1 DEF CuseInv, RegionInv
      <4>3. chosen[e][1] # d
        BY <4>2
      <4> QED
        BY <1>9, <4>1, <4>2, <4>3
    <3> QED
      BY <3>1, <3>2
  <2>2. ASSUME NEW g \in Devts, region'[g] # Nil
        PROVE  (cc'[region'[g]].dev \/ reply'[region'[g]] = "region")
               /\ chosen'[region'[g]][1] = g
    <3>1. CASE g = d
      BY <1>9, <3>1
    <3>2. CASE g # d
      <4>1. region'[g] = region[g]
        BY <1>9, <3>2
      <4>2. region[g] \in Channels /\ Holds(region[g]) /\ chosen[region[g]][1] = g
        <5>1. region \in [Devts -> Channels \cup {Nil}]
          BY DEF CuseInv, CuseType
        <5> QED
          BY <2>2, <4>1, <5>1 DEF CuseInv, RegionInv
      <4>3. region[g] # c
        BY <1>2, <4>2
      <4> QED
        BY <1>9, <4>1, <4>2, <4>3 DEF Holds
    <3> QED
      BY <3>1, <3>2
  <2> QED
    BY <2>1, <2>2 DEF RegionInv, Holds
<1>11. NameInv'
  <2>1. ASSUME NEW e \in Channels, cc[e].listed PROVE chosen'[e] = chosen[e]
    BY <1>2, <1>9, <2>1
  <2> QED
    BY <2>1 DEF CuseInv, NameInv
<1> QED
  BY <1>6, <1>7, <1>8, <1>10, <1>11 DEF CuseInv

LEMMA InitReplyU ==
    ASSUME CuseInv, NEW c \in Channels, U!cuse_process_init_reply(c)
    PROVE  CuseInv'
<1>1. chan[c] = "open" /\ reply[c] = "sent" /\ UNCHANGED <<chan, client, conn>>
  BY DEF U!cuse_process_init_reply
<1>2. CASE U!reply_fails(c)
  BY <1>1, <1>2, ReplyFails
<1>3. ASSUME NEW d \in Devts, NEW info, U!reply_region(c, d, info)
      PROVE  CuseInv'
  <2> DEFINE name == U!cuse_parse_devinfo(info)
  <2>1. CASE name = Nil \/ region[d] # Nil
    <3>1. U!reply_fails(c)
      BY <1>3, <2>1 DEF U!reply_region
    <3> QED
      BY <1>1, <3>1, ReplyFails
  <2>2. CASE ~(name = Nil \/ region[d] # Nil)
    <3>1. /\ region' = [region EXCEPT ![d] = c]
          /\ chosen' = [chosen EXCEPT ![c] = <<d, name>>]
          /\ reply' = [reply EXCEPT ![c] = "region"] /\ UNCHANGED cc
          /\ region[d] = Nil
      BY <1>3, <2>2 DEF U!reply_region
    <3> HIDE DEF name
    <3> QED
      BY <1>1, <3>1, ReplyReserves
  <2> QED
    BY <2>1, <2>2
<1> QED
  BY <1>2, <1>3 DEF U!cuse_process_init_reply

(* cuse_class_abort_store.                                                 *)
LEMMA ClassAbort ==
    ASSUME CuseInv, NEW c \in Channels, U!cuse_class_abort_store(c)
    PROVE  CuseInv'
<1> DEFINE k == [cc[c] EXCEPT !.connected = FALSE]
           h == chan[c]
           r == reply[c]
<1>1. ChanOk(chan[c], cc[c], reply[c], Opens(c)) /\ cc[c].dev
  BY DEF CuseInv, Chan, U!cuse_class_abort_store
<1>2. cc[c] \in CuseConn /\ cc[c].count \in Nat
  BY <1>1 DEF ChanOk, CuseConn
<1>3. /\ k \in CuseConn /\ k.count = cc[c].count /\ k.alive = cc[c].alive
      /\ k.listed = cc[c].listed /\ k.dev = cc[c].dev
  BY <1>2, CuseFlags
<1>4. /\ chan' = [chan EXCEPT ![c] = h] /\ cc' = [cc EXCEPT ![c] = k]
      /\ reply' = [reply EXCEPT ![c] = r]
      /\ UNCHANGED <<chosen, region, client, conn>>
  BY SameChan DEF U!cuse_class_abort_store
<1>5. ASSUME NEW n \in Nat, ChanOk(chan[c], cc[c], reply[c], n)
      PROVE  ChanOk(h, k, r, n)
  <2> HIDE DEF k
  <2> QED
    BY <1>1, <1>2, <1>3, <1>5 DEF ChanOk, ChanRefs
<1>6. Holds(c) <=> k.dev \/ r = "region"
  <2> HIDE DEF k
  <2> QED
    BY <1>1, <1>3 DEF Holds, ChanOk
<1>7. k.listed => cc[c].listed
  BY <1>3
<1> HIDE DEF h, k, r
<1> QED
  BY <1>4, <1>5, <1>6, <1>7, OnlyChan

(* cuse_channel_release: list_del.                                         *)
LEMMA ChannelRelease ==
    ASSUME CuseInv, NEW c \in Channels, U!cuse_channel_release(c)
    PROVE  CuseInv'
<1> DEFINE k == [cc[c] EXCEPT !.listed = FALSE]
           h == "unlisted"
           r == reply[c]
<1>1. ChanOk(chan[c], cc[c], reply[c], Opens(c)) /\ chan[c] = "open" /\ reply[c] # "region"
  BY DEF CuseInv, Chan, U!cuse_channel_release
<1>2. cc[c] \in CuseConn /\ cc[c].count \in Nat
  BY <1>1 DEF ChanOk, CuseConn
<1>3. /\ k \in CuseConn /\ k.count = cc[c].count /\ k.alive = cc[c].alive
      /\ k.listed = FALSE /\ k.dev = cc[c].dev
  BY <1>2, CuseFlags
<1>4. /\ chan' = [chan EXCEPT ![c] = h] /\ cc' = [cc EXCEPT ![c] = k]
      /\ reply' = [reply EXCEPT ![c] = r]
      /\ UNCHANGED <<chosen, region, client, conn>>
  BY SameChan DEF U!cuse_channel_release
<1>5. ASSUME NEW n \in Nat, ChanOk(chan[c], cc[c], reply[c], n)
      PROVE  ChanOk(h, k, r, n)
  <2> HIDE DEF k
  <2> QED
    BY <1>1, <1>2, <1>3, <1>5 DEF ChanOk, ChanRefs
<1>6. Holds(c) <=> k.dev \/ r = "region"
  <2> HIDE DEF k
  <2> QED
    BY <1>1, <1>3 DEF Holds, ChanOk
<1>7. k.listed => cc[c].listed
  BY <1>3
<1> HIDE DEF h, k, r
<1> QED
  BY <1>4, <1>5, <1>6, <1>7, OnlyChan

(* cuse_channel_release: the abort and the two references.                 *)
LEMMA ChannelPut ==
    ASSUME CuseInv, NEW c \in Channels, U!channel_put(c)
    PROVE  CuseInv'
<1> DEFINE k == U!Put(U!Put([cc[c] EXCEPT !.connected = FALSE]))
           h == "released"
           r == "ended"
<1>1. ChanOk(chan[c], cc[c], reply[c], Opens(c)) /\ chan[c] = "removed"
  BY DEF CuseInv, Chan, U!channel_put
<1>2. cc[c] \in CuseConn /\ cc[c].count \in Nat
  BY <1>1 DEF ChanOk, CuseConn
<1>3. /\ k \in CuseConn /\ k.count = cc[c].count - 2
      /\ cc[c].count > 2 => k.alive = cc[c].alive
      /\ cc[c].count = 2 => ~k.alive
      /\ k.listed = cc[c].listed /\ k.dev = cc[c].dev /\ cc[c].count >= 2
  <2> DEFINE x == [cc[c] EXCEPT !.connected = FALSE]
             y == U!Put(x)
  <2>1. cc[c].count >= 2
    <3>1. Opens(c) \in Nat
      BY OpensNat
    <3> QED
      BY <1>1, <1>2, <3>1 DEF ChanOk, ChanRefs
  <2>2. /\ x \in CuseConn /\ x.count = cc[c].count /\ x.alive = cc[c].alive
        /\ x.listed = cc[c].listed /\ x.dev = cc[c].dev
    BY <1>2, CuseFlags
  <2> HIDE DEF x
  <2>3. x.count > 0
    BY <1>2, <2>1, <2>2
  <2>4. /\ y \in CuseConn /\ y.count = x.count - 1
        /\ x.count > 1 => y.alive = x.alive
        /\ y.listed = x.listed /\ y.dev = x.dev
    BY <2>2, <2>3, CusePut
  <2> HIDE DEF y
  <2>5. y.count > 0
    BY <1>2, <2>1, <2>2, <2>4
  <2>6. /\ k \in CuseConn /\ k.count = y.count - 1
        /\ y.count > 1 => k.alive = y.alive
        /\ y.count = 1 => ~k.alive
        /\ k.listed = y.listed /\ k.dev = y.dev
    <3>1. k = U!Put(y)
      BY DEF x, y
    <3> HIDE DEF k
    <3> QED
      BY <2>4, <2>5, <3>1, CusePut
  <2> HIDE DEF k
  <2> QED
    BY <1>2, <2>1, <2>2, <2>4, <2>6
<1>4. /\ chan' = [chan EXCEPT ![c] = h] /\ cc' = [cc EXCEPT ![c] = k]
      /\ reply' = [reply EXCEPT ![c] = r]
      /\ UNCHANGED <<chosen, region, client, conn>>
  BY SameChan DEF U!channel_put
<1>5. ASSUME NEW n \in Nat, ChanOk(chan[c], cc[c], reply[c], n)
      PROVE  ChanOk(h, k, r, n)
  <2> HIDE DEF k
  <2> QED
    BY <1>1, <1>2, <1>3, <1>5 DEF ChanOk, ChanRefs
<1>6. Holds(c) <=> k.dev \/ r = "region"
  <2> HIDE DEF k
  <2> QED
    BY <1>1, <1>3 DEF Holds, ChanOk
<1>7. k.listed => cc[c].listed
  BY <1>3
<1> HIDE DEF h, k, r
<1> QED
  BY <1>4, <1>5, <1>6, <1>7, OnlyChan

(* In cuse_lock: the name is not in the table yet.                         *)
LEMMA ReplyAdd ==
    ASSUME CuseInv, NEW c \in Channels, U!reply_add(c)
    PROVE  CuseInv'
<1> DEFINE k == [cc[c] EXCEPT !.dev = TRUE, !.listed = TRUE]
           h == chan[c]
           n == Opens(c)
<1>1. ChanOk(h, cc[c], reply[c], n) /\ n \in Nat /\ reply[c] = "region"
  BY OpensNat DEF CuseInv, Chan, U!reply_add
<1>2. cc[c] \in CuseConn
  BY <1>1 DEF ChanOk
<1>3. /\ k \in CuseConn /\ k.count = cc[c].count /\ k.alive = cc[c].alive
      /\ k.listed = TRUE /\ k.dev = TRUE
  BY <1>2, CuseFlags
<1>4. /\ chan' = [chan EXCEPT ![c] = h] /\ cc' = [cc EXCEPT ![c] = k]
      /\ reply' = [reply EXCEPT ![c] = "ended"]
      /\ UNCHANGED <<chosen, region, client, conn>>
  BY SameChan DEF U!reply_add
<1> HIDE DEF k
<1>5. ChanOk(h, k, "ended", n)
  BY <1>1, <1>3 DEF ChanOk
<1>6. (\A e \in Channels : Opens(e)' = Opens(e)) /\ Opens(c)' = n
  BY <1>4 DEF Opens
<1>7. \A e \in Channels : Chan(e)'
  <2> HIDE DEF h, n
  <2> QED
    BY <1>1, <1>4, <1>5, <1>6, OneChan
<1>8. CuseType' /\ ClientInv'
  BY <1>4 DEF CuseInv, CuseType, ClientInv
<1>9. /\ cc'[c] = k /\ reply'[c] = "ended"
      /\ \A e \in Channels \ {c} : cc'[e] = cc[e] /\ reply'[e] = reply[e]
  BY <1>4 DEF CuseInv, CuseType
<1>10. \A e \in Channels : cc'[e].dev \/ reply'[e] = "region"
                           <=> cc[e].dev \/ reply[e] = "region"
  BY <1>1, <1>3, <1>9
<1>11. RegionInv'
  <2>1. region \in [Devts -> Channels \cup {Nil}]
    BY DEF CuseInv, CuseType
  <2>2. RegionInv
    BY DEF CuseInv
  <2> QED
    BY <1>4, <1>10, <2>1, <2>2 DEF RegionInv, Holds
<1>12. NameInv'
  <2>1. \A e \in Channels : cc[e].listed => chosen[e][2] # chosen[c][2]
    BY DEF U!reply_add, U!Taken
  <2>2. NameInv
    BY DEF CuseInv
  <2> QED
    BY <1>4, <1>9, <2>1, <2>2 DEF NameInv
<1> QED
  BY <1>7, <1>8, <1>11, <1>12 DEF CuseInv

(* A channel gives its number back: it has one, and only one.              *)
LEMMA NumberReturned ==
    ASSUME CuseInv, NEW c \in Channels, Holds(c), NEW h, NEW k, NEW r,
           chan' = [chan EXCEPT ![c] = h], cc' = [cc EXCEPT ![c] = k],
           reply' = [reply EXCEPT ![c] = r],
           region' = [region EXCEPT ![chosen[c][1]] = Nil],
           UNCHANGED <<chosen, client, conn>>,
           ChanOk(h, k, r, Opens(c)), ~k.dev, r # "region", ~k.listed
    PROVE  CuseInv'
<1> DEFINE n == Opens(c)
           g == chosen[c][1]
<1>1. n \in Nat /\ ChanOk(h, k, r, n)
  BY OpensNat
<1>2. region \in [Devts -> Channels \cup {Nil}] /\ RegionInv
  BY DEF CuseInv, CuseType
<1>3. g \in Devts /\ region[g] = c
  BY <1>2 DEF RegionInv
<1>4. (\A e \in Channels : Opens(e)' = Opens(e)) /\ Opens(c)' = n
  BY DEF Opens
<1>5. \A e \in Channels : Chan(e)'
  <2> HIDE DEF n
  <2> QED
    BY <1>1, <1>4, OneChan
<1>6. region' = [region EXCEPT ![g] = Nil]
  OBVIOUS
<1> HIDE DEF g
<1>7. region' \in [Devts -> Channels \cup {Nil}]
  BY <1>2, <1>6
<1>8. CuseType' /\ ClientInv'
  BY <1>7 DEF CuseInv, CuseType, ClientInv
<1>9. /\ cc'[c] = k /\ reply'[c] = r
      /\ \A e \in Channels \ {c} : cc'[e] = cc[e] /\ reply'[e] = reply[e]
  BY DEF CuseInv, CuseType
<1>10. region'[g] = Nil /\ \A d \in Devts \ {g} : region'[d] = region[d]
  BY <1>2, <1>3, <1>6
<1>11. RegionInv'
  <2>1. ASSUME NEW e \in Channels, cc'[e].dev \/ reply'[e] = "region"
        PROVE  chosen[e][1] \in Devts /\ region'[chosen[e][1]] = e
    <3>1. e # c /\ Holds(e)
      BY <1>9, <2>1 DEF Holds
    <3>2. chosen[e][1] \in Devts /\ region[chosen[e][1]] = e
      BY <1>2, <3>1 DEF RegionInv
    <3>3. chosen[e][1] # g
      BY <1>3, <3>1, <3>2
    <3> QED
      BY <1>10, <3>2, <3>3
  <2>2. ASSUME NEW d \in Devts, region'[d] # Nil
        PROVE  (cc'[region'[d]].dev \/ reply'[region'[d]] = "region")
               /\ chosen[region'[d]][1] = d
    <3>1. d # g /\ region'[d] = region[d]
      BY <1>10, <2>2
    <3>2. region[d] \in Channels /\ Holds(region[d]) /\ chosen[region[d]][1] = d
      BY <1>2, <2>2, <3>1 DEF RegionInv
    <3>3. region[d] # c
      BY <3>1, <3>2 DEF g
    <3> QED
      BY <1>9, <3>1, <3>2, <3>3 DEF Holds
  <2> QED
    BY <2>1, <2>2 DEF RegionInv, Holds
<1>12. NameInv'
  <2>1. \A e \in Channels : cc'[e].listed => cc[e].listed
    BY <1>9
  <2> QED
    BY <2>1 DEF CuseInv, NameInv
<1> QED
  BY <1>5, <1>8, <1>11, <1>12 DEF CuseInv

LEMMA ReplyUndo ==
    ASSUME CuseInv, NEW c \in Channels, U!reply_undo(c)
    PROVE  CuseInv'
<1> DEFINE k == [cc[c] EXCEPT !.connected = FALSE]
           h == chan[c]
<1>1. ChanOk(chan[c], cc[c], reply[c], Opens(c)) /\ reply[c] = "region"
  BY DEF CuseInv, Chan, U!reply_undo
<1>2. cc[c] \in CuseConn
  BY <1>1 DEF ChanOk
<1>3. /\ k \in CuseConn /\ k.count = cc[c].count /\ k.alive = cc[c].alive
      /\ k.listed = cc[c].listed /\ k.dev = cc[c].dev
  BY <1>2, CuseFlags
<1>4. /\ chan' = [chan EXCEPT ![c] = h] /\ cc' = [cc EXCEPT ![c] = k]
      /\ reply' = [reply EXCEPT ![c] = "ended"]
      /\ region' = [region EXCEPT ![chosen[c][1]] = Nil]
      /\ UNCHANGED <<chosen, client, conn>>
  BY SameChan DEF U!reply_undo
<1>5. ChanOk(h, k, "ended", Opens(c)) /\ ~k.dev /\ ~k.listed
  <2> HIDE DEF k
  <2> QED
    BY <1>1, <1>3 DEF ChanOk
<1>6. Holds(c)
  BY <1>1 DEF Holds
<1> HIDE DEF h, k
<1> QED
  BY <1>4, <1>5, <1>6, NumberReturned

LEMMA ChannelUnregister ==
    ASSUME CuseInv, NEW c \in Channels, U!channel_unregister(c)
    PROVE  CuseInv'
<1> DEFINE k == [cc[c] EXCEPT !.dev = FALSE]
           r == reply[c]
<1>1. ChanOk(chan[c], cc[c], reply[c], Opens(c)) /\ chan[c] = "unlisted"
  BY DEF CuseInv, Chan, U!channel_unregister
<1>2. cc[c] \in CuseConn
  BY <1>1 DEF ChanOk
<1>3. /\ k \in CuseConn /\ k.count = cc[c].count /\ k.alive = cc[c].alive
      /\ k.listed = cc[c].listed /\ k.dev = FALSE
  BY <1>2, CuseFlags
<1>4. /\ chan' = [chan EXCEPT ![c] = "removed"] /\ cc' = [cc EXCEPT ![c] = k]
      /\ reply' = [reply EXCEPT ![c] = r]
      /\ UNCHANGED <<chosen, client, conn>>
  BY SameChan DEF U!channel_unregister
<1>5. ASSUME NEW n \in Nat, ChanOk(chan[c], cc[c], reply[c], n)
      PROVE  ChanOk("removed", k, r, n)
  <2> HIDE DEF k
  <2> QED
    BY <1>1, <1>3, <1>5 DEF ChanOk, ChanRefs
<1>6. ChanOk("removed", k, r, Opens(c)) /\ ~k.dev /\ ~k.listed /\ r # "region"
  <2>1. Opens(c) \in Nat
    BY OpensNat
  <2> HIDE DEF k
  <2> QED
    BY <1>1, <1>3, <1>5, <2>1 DEF ChanOk
<1>7. CASE cc[c].dev
  <2>1. region' = [region EXCEPT ![chosen[c][1]] = Nil] /\ Holds(c)
    BY <1>7 DEF U!channel_unregister, Holds
  <2> HIDE DEF k, r
  <2> QED
    BY <1>4, <1>6, <2>1, NumberReturned
<1>8. CASE ~cc[c].dev
  <2>1. region' = region
    BY <1>8 DEF U!channel_unregister
  <2>2. Holds(c) <=> k.dev \/ r = "region"
    BY <1>3, <1>8 DEF Holds
  <2> HIDE DEF k, r
  <2> QED
    BY <1>4, <1>5, <1>6, <2>1, <2>2, OnlyChan
<1> QED
  BY <1>7, <1>8

(* A device file is opened on a channel or lets go of it.                  *)
LEMMA ConnMoves ==
    ASSUME CuseInv, NEW u \in Clients, NEW v, conn' = [conn EXCEPT ![u] = v],
           conn[u] # v, NEW n \in Channels
    PROVE  /\ Opens(n) \in Nat
           /\ v = n => Opens(n)' = Opens(n) + 1
           /\ conn[u] = n => Opens(n)' = Opens(n) - 1 /\ Opens(n) > 0
           /\ conn[u] # n /\ v # n => Opens(n)' = Opens(n)
<1> DEFINE G == PointTo(Clients, conn, n)
           H == PointTo(Clients, conn', n)
<1>1. /\ Opens(n) = Cardinality(G) /\ Opens(n)' = Cardinality(H)
  BY DEF Opens, PointTo
<1>2. /\ IsFiniteSet(G) /\ Cardinality(G) \in Nat
      /\ IsFiniteSet(H) /\ Cardinality(H) \in Nat
  BY CountNat
<1>3. DOMAIN conn = Clients
  BY DEF CuseInv, CuseType
<1>4. /\ v = n => H = G \cup {u} /\ u \notin G
      /\ conn[u] = n => G = H \cup {u} /\ u \notin H
      /\ conn[u] # n /\ v # n => H = G
  BY <1>3 DEF PointTo
<1> HIDE DEF G, H
<1>5. ASSUME v = n PROVE Cardinality(H) = Cardinality(G) + 1
  BY <1>2, <1>4, <1>5, FS_AddElement
<1>6. ASSUME conn[u] = n PROVE Cardinality(G) = Cardinality(H) + 1
  BY <1>2, <1>4, <1>6, FS_AddElement
<1>7. ASSUME conn[u] # n, v # n PROVE Cardinality(H) = Cardinality(G)
  BY <1>4, <1>7
<1> QED
  BY <1>1, <1>2, <1>5, <1>6, <1>7

(* The step of a client on channel c's connection.                         *)
LEMMA ClientStep ==
    ASSUME CuseInv, NEW c \in Channels, NEW u \in Clients, NEW k, NEW v, NEW w,
           NEW n \in Nat,
           w \in {"closed", "opening", "open"}, v \in Channels \cup {Nil},
           w = "closed" <=> v = Nil,
           client' = [client EXCEPT ![u] = w], cc' = [cc EXCEPT ![c] = k],
           conn' = [conn EXCEPT ![u] = v],
           UNCHANGED <<chan, reply, chosen, region>>,
           \A e \in Channels \ {c} : Opens(e)' = Opens(e), Opens(c)' = n,
           ChanOk(chan[c], k, reply[c], n),
           k.dev = cc[c].dev, k.listed = cc[c].listed
    PROVE  CuseInv'
<1> DEFINE h == chan[c]
           r == reply[c]
<1>1. chan' = [chan EXCEPT ![c] = h] /\ reply' = [reply EXCEPT ![c] = r]
      /\ ChanOk(h, k, r, n)
  BY SameChan
<1> HIDE DEF h, r
<1>2. \A e \in Channels : Chan(e)'
  BY <1>1, OneChan
<1>3. CuseType'
  BY DEF CuseInv, CuseType
<1>4. ClientInv'
  <2>1. /\ DOMAIN client = Clients /\ DOMAIN conn = Clients /\ ClientInv
    BY DEF CuseInv, CuseType
  <2> QED
    BY <2>1 DEF ClientInv
<1>5. \A e \in Channels : cc'[e].dev = cc[e].dev /\ cc'[e].listed = cc[e].listed
  BY DEF CuseInv, CuseType
<1>6. RegionInv'
  <2>1. region \in [Devts -> Channels \cup {Nil}]
    BY DEF CuseInv, CuseType
  <2>2. RegionInv
    BY DEF CuseInv
  <2> QED
    BY <1>5, <2>1, <2>2 DEF RegionInv, Holds
<1>7. NameInv'
  <2>1. NameInv
    BY DEF CuseInv
  <2> QED
    BY <1>5, <2>1 DEF NameInv
<1> QED
  BY <1>2, <1>3, <1>4, <1>6, <1>7 DEF CuseInv

LEMMA CuseOpen ==
    ASSUME CuseInv, NEW u \in Clients, U!cuse_open(u)
    PROVE  CuseInv'
<1>1. PICK c \in Channels : /\ cc[c].listed
                            /\ cc' = [cc EXCEPT ![c] = [cc[c] EXCEPT !.count = cc[c].count + 1]]
                            /\ conn' = [conn EXCEPT ![u] = c]
  BY DEF U!cuse_open
<1> DEFINE k == [cc[c] EXCEPT !.count = cc[c].count + 1]
           n == Opens(c)
<1>2. ChanOk(chan[c], cc[c], reply[c], n) /\ n \in Nat
  BY OpensNat DEF CuseInv, Chan
<1>3. cc[c] \in CuseConn /\ cc[c].count \in Nat
  BY <1>2 DEF ChanOk, CuseConn
<1>4. /\ k \in CuseConn /\ k.count = cc[c].count + 1 /\ k.alive = cc[c].alive
      /\ k.listed = cc[c].listed /\ k.dev = cc[c].dev
  BY <1>3, CuseGet
<1>5. cc' = [cc EXCEPT ![c] = k]
  BY <1>1
<1> HIDE DEF k
<1>6. client[u] = "closed" /\ conn[u] = Nil /\ c # Nil
  BY DEF CuseInv, ClientInv, U!cuse_open
<1>7. n + 1 \in Nat /\ Opens(c)' = n + 1
      /\ \A e \in Channels \ {c} : Opens(e)' = Opens(e)
  <2>1. conn[u] # c /\ conn' = [conn EXCEPT ![u] = c]
    BY <1>1, <1>6
  <2>2. Opens(c)' = Opens(c) + 1
    BY <2>1, ConnMoves
  <2>3. ASSUME NEW e \in Channels \ {c} PROVE Opens(e)' = Opens(e)
    BY <1>6, <2>1, <2>3, ConnMoves
  <2> QED
    BY <1>2, <2>2, <2>3
<1> HIDE DEF n
<1>8. ChanOk(chan[c], k, reply[c], n + 1)
  BY <1>1, <1>2, <1>3, <1>4 DEF ChanOk, ChanRefs
<1>9. client' = [client EXCEPT ![u] = "opening"]
      /\ UNCHANGED <<chan, reply, chosen, region>>
  BY DEF U!cuse_open
<1> QED
  BY <1>1, <1>4, <1>5, <1>6, <1>7, <1>8, <1>9, ClientStep

(* The end of a device file, and of an open that fails.                    *)
LEMMA ClientPut ==
    ASSUME CuseInv, NEW u \in Clients, client[u] # "closed",
           client' = [client EXCEPT ![u] = "closed"],
           cc' = [cc EXCEPT ![conn[u]] = U!Put(cc[conn[u]])],
           conn' = [conn EXCEPT ![u] = Nil],
           UNCHANGED <<chan, reply, chosen, region>>
    PROVE  CuseInv'
<1>1. PICK c \in Channels : c = conn[u]
  BY DEF CuseInv, CuseType, ClientInv
<1> DEFINE k == U!Put(cc[c])
           n == Opens(c)
<1>2. ChanOk(chan[c], cc[c], reply[c], n) /\ n \in Nat
  BY OpensNat DEF CuseInv, Chan
<1>3. cc[c] \in CuseConn /\ cc[c].count \in Nat /\ chan[c] \in
        {"closed", "open", "leaked", "unlisted", "removed", "released"}
  BY <1>2 DEF ChanOk, CuseConn
<1>4. /\ n > 0 /\ n - 1 \in Nat /\ Opens(c)' = n - 1 /\ c # Nil
      /\ \A e \in Channels \ {c} : Opens(e)' = Opens(e)
  <2>1. conn[u] = c /\ c # Nil /\ conn' = [conn EXCEPT ![u] = Nil]
    BY <1>1
  <2>2. Opens(c)' = Opens(c) - 1 /\ Opens(c) > 0
    BY <2>1, ConnMoves
  <2>3. ASSUME NEW e \in Channels \ {c} PROVE Opens(e)' = Opens(e)
    BY <2>1, <2>3, ConnMoves
  <2> QED
    BY <1>2, <2>1, <2>2, <2>3
<1>5. cc[c].count > 0
  <2> HIDE DEF n
  <2> QED
    BY <1>2, <1>3, <1>4 DEF ChanOk, ChanRefs
<1>6. /\ k \in CuseConn /\ k.count = cc[c].count - 1
      /\ cc[c].count > 1 => k.alive = cc[c].alive
      /\ cc[c].count = 1 => ~k.alive
      /\ k.listed = cc[c].listed /\ k.dev = cc[c].dev
  BY <1>3, <1>5, CusePut
<1>7. cc' = [cc EXCEPT ![c] = k]
  BY <1>1
<1> HIDE DEF k, n
<1>8. ChanOk(chan[c], k, reply[c], n - 1)
  BY <1>2, <1>3, <1>4, <1>5, <1>6 DEF ChanOk, ChanRefs
<1> QED
  BY <1>4, <1>6, <1>7, <1>8, ClientStep

LEMMA CuseInvInit == U!Init => CuseInv
<1> SUFFICES ASSUME U!Init PROVE CuseInv
  OBVIOUS
<1>1. CuseType
  BY DEF U!Init, CuseType
<1>2. ASSUME NEW c \in Channels
      PROVE  /\ chan[c] = "closed" /\ cc[c] = U!NoConn /\ reply[c] = "none"
             /\ Opens(c) = 0
  <2>1. \A u \in Clients : conn[u] # c
    BY DEF U!Init
  <2>2. Opens(c) \in Nat /\ ~(Opens(c) > 0)
    BY <2>1, OpensNat
  <2>3. Opens(c) = 0
    BY <2>2
  <2> QED
    BY <2>3 DEF U!Init
<1>3. U!NoConn \in CuseConn /\ U!NoConn.count = 0 /\ U!NoConn.alive = FALSE
      /\ U!NoConn.listed = FALSE /\ U!NoConn.dev = FALSE
  BY DEF U!NoConn, CuseConn
<1>4. ChanOk("closed", U!NoConn, "none", 0)
  BY <1>3 DEF ChanOk, ChanRefs
<1>5. \A c \in Channels : Chan(c)
  BY <1>2, <1>4 DEF Chan
<1>6. \A c \in Channels : ~Holds(c) /\ ~cc[c].listed
  BY <1>2, <1>3 DEF Holds
<1>7. ClientInv
  BY DEF U!Init, ClientInv
<1>8. RegionInv /\ NameInv
  <2>1. \A d \in Devts : region[d] = Nil
    BY DEF U!Init
  <2> QED
    BY <1>6, <2>1 DEF RegionInv, NameInv
<1> QED
  BY <1>1, <1>5, <1>7, <1>8 DEF CuseInv

LEMMA CuseInvStep == CuseInv /\ [U!Next]_U!cvars => CuseInv'
<1> SUFFICES ASSUME CuseInv, [U!Next]_U!cvars PROVE CuseInv'
  OBVIOUS
<1>1. CASE UNCHANGED U!cvars
  <2>1. CuseType' /\ ClientInv' /\ NameInv'
    BY <1>1 DEF U!cvars, CuseInv, CuseType, ClientInv, NameInv
  <2>2. \A c \in Channels : Chan(c)'
    <3>1. ASSUME NEW c \in Channels PROVE Chan(c)'
      <4>1. Chan(c)
        BY DEF CuseInv
      <4> QED
        BY <1>1, <4>1 DEF U!cvars, Chan, Opens
    <3> QED
      BY <3>1
  <2>3. RegionInv'
    <3>1. RegionInv
      BY DEF CuseInv
    <3> QED
      BY <1>1, <3>1 DEF U!cvars, RegionInv, Holds
  <2> QED
    BY <2>1, <2>2, <2>3 DEF CuseInv
<1>2. ASSUME NEW c \in Channels,
             \/ U!cuse_channel_open(c) \/ U!cuse_process_init_reply(c) \/ U!reply_add(c)
             \/ U!reply_undo(c) \/ U!cuse_class_abort_store(c)
             \/ U!cuse_channel_release(c) \/ U!channel_unregister(c) \/ U!channel_put(c)
      PROVE  CuseInv'
  BY <1>2, ChannelOpen, InitReplyU, ReplyAdd, ReplyUndo, ClassAbort, ChannelRelease,
     ChannelUnregister, ChannelPut
<1>3. ASSUME NEW u \in Clients, U!cuse_open(u) PROVE CuseInv'
  BY <1>3, CuseOpen
<1>4. ASSUME NEW u \in Clients, U!open_done(u) PROVE CuseInv'
  <2>1. CASE /\ client' = [client EXCEPT ![u] = "closed"]
             /\ cc' = [cc EXCEPT ![conn[u]] = U!Put(cc[conn[u]])]
             /\ conn' = [conn EXCEPT ![u] = Nil]
    BY <1>4, <2>1, ClientPut DEF U!open_done
  <2>2. CASE client' = [client EXCEPT ![u] = "open"] /\ UNCHANGED <<cc, conn>>
    <3>1. PICK c \in Channels : c = conn[u]
      BY <1>4 DEF U!open_done, CuseInv, CuseType, ClientInv
    <3> DEFINE k == cc[c]
               n == Opens(c)
    <3>2. ChanOk(chan[c], k, reply[c], n) /\ n \in Nat
      BY OpensNat DEF CuseInv, Chan
    <3>3. /\ cc' = [cc EXCEPT ![c] = k] /\ conn' = [conn EXCEPT ![u] = c]
          /\ \A e \in Channels : Opens(e)' = Opens(e)
      BY <2>2, <3>1, SameChan DEF Opens, CuseInv, CuseType
    <3>4. UNCHANGED <<chan, reply, chosen, region>> /\ Opens(c)' = n /\ c # Nil
      BY <1>4, <3>3 DEF U!open_done
    <3>5. k.dev = cc[c].dev /\ k.listed = cc[c].listed
      OBVIOUS
    <3> HIDE DEF k, n
    <3> QED
      BY <2>2, <3>2, <3>3, <3>4, <3>5, ClientStep
  <2> QED
    BY <1>4, <2>1, <2>2 DEF U!open_done
<1>5. ASSUME NEW u \in Clients, U!cuse_release(u) PROVE CuseInv'
  BY <1>5, ClientPut DEF U!cuse_release
<1> QED
  BY <1>1, <1>2, <1>3, <1>4, <1>5, Zenon DEF U!Next

LEMMA CuseInvHolds == U!Spec => []CuseInv
<1>1. U!Init => CuseInv
  BY CuseInvInit
<1>2. CuseInv /\ [U!Next]_U!cvars => CuseInv'
  BY CuseInvStep
<1> QED
  BY <1>1, <1>2, PTL DEF U!Spec

(* cuse_channel_open, cuse_process_init_reply, cuse_open,                  *)
(* cuse_channel_release: for any number of channels, clients, names and    *)
(* numbers, whatever fails and whoever leaves first, the references of a   *)
(* connection are exact, a device that can be opened has its channel, its  *)
(* number and a name of its own, and no number stays reserved without one. *)
THEOREM CuseLifeBalanced == U!Spec => []CuseBalanced
<1>1. CuseInv => CuseBalanced
  BY CuseInvSafe
<1> QED
  BY <1>1, CuseInvHolds, PTL

-----------------------------------------------------------------------------
(* The instances side by side: a step of one component leaves the others.  *)
LEMMA ConnParts == ConnSpec => M!Spec /\ U!Spec
<1>1. ConnInit => M!Init /\ U!Init
  BY DEF ConnInit
<1>2. [ConnNext]_<<part, qvars, mount, cuse>> => [M!Next]_M!mvars /\ [U!Next]_U!cvars
  BY Zenon DEF ConnNext, mount, cuse, M!mvars, U!cvars
<1> QED
  BY <1>1, <1>2, PTL DEF ConnSpec, M!Spec, U!Spec

(* The four properties of the connection as the runs check them.           *)
THEOREM ConnectionSound ==
    ConnSpec => [](ConnSafe /\ Served /\ SbLive /\ CuseBalanced)
  BY ConnParts, ConnectionsSafe, ConnectionsServed, SuperBlockLive, CuseLifeBalanced, PTL
=============================================================================
