------------------------ MODULE FuseWritebackProofs ------------------------
(***************************************************************************)
(* Proofs about FuseWriteback, for any number of threads, whatever they    *)
(* do, any number of requests that an int can count, and files of any      *)
(* size: the count of the writes in flight and its bias are exact, no      *)
(* thread that waits for a write sleeps for ever for want of a wake-up,    *)
(* and no write makes the daemon's file longer than a truncate left it.    *)
(* The invariant WriteInv says which lock every step of a thread is under, *)
(* and that a request is in one place only: filled by one thread, queued,  *)
(* chained to one other request, or sent.  TruncInv (second half) adds     *)
(* where a page beyond the end of the file can still be, and who is going  *)
(* to take it from there.                                                  *)
(***************************************************************************)
EXTENDS FuseWriteback, FiniteSetTheorems, SequenceTheorems,
        WellFoundedInduction, TLAPS

Status == {"free", "new", "queued", "chained", "pending", "read", "copied",
           "ending", "finishing"}
PC == {"idle", "scan", "scanned", "fill", "alloc", "inflight", "inplace",
       "count", "send", "flush", "written", "writepage", "locked",
       "reclaimed", "waitpage", "nowrite", "waitwrites", "section", "synced",
       "durable", "lock", "store", "replied", "truncate", "invalidate",
       "launder", "laundered", "unlock"}
After == {"idle", "alloc", "written", "reclaimed", "launder", "laundered",
          "store", "synced", "unlock", "truncate"}
Request == [st : Status, idx : Pages, data : Seq(Nat), size : Nat,
            chain : Seq(Reqs), wire : Seq(Nat)]
Registers ==
    [op : OpNames \cup {"none"}, pc : PC, page : Pages, pages : SUBSET Pages,
     req : Reqs \cup {None}, isw : BOOLEAN, cur : Nat, after : After,
     crop : Nat, old : Reqs \cup {None}, err : BOOLEAN, size : Nat]

(* The types of the variables that the counts and the wake-ups depend on.  *)
TypeOK ==
    /\ fclock \in Threads \cup Reqs \cup {None}
    /\ isize \in Nat /\ ver \in Nat /\ cache \in [Pages -> Nat]
    /\ writectr \in Int /\ queued \in Seq(Reqs) /\ writepages \subseteq Reqs
    /\ asleep \subseteq Threads
    /\ req \in [Reqs -> Request] /\ th \in [Threads -> Registers]

(* The inode's i_mutex is held by the thread that truncates, that runs     *)
(* fsync or that writes, so there is one such thread; a subroutine returns *)
(* to its caller.                                                          *)
Holding == {"fsync", "truncate", "write"}
Ending == {"replied", "truncate", "invalidate", "launder", "laundered", "unlock"}
MutexOf(t, r, mutex) ==
    /\ r.op \in Holding => mutex = t
    /\ r.pc \in {"nowrite", "waitwrites", "section"}
       => r.op \in {"fsync", "truncate"}
    /\ r.pc \in Ending => r.op = "truncate"
    /\ r.pc \in {"send", "flush", "locked", "waitpage"} /\ r.after \in Ending
       => r.op = "truncate"
    /\ r.pc = "locked" => r.after \in {"reclaimed", "launder"}
    /\ r.pc = "waitpage" => r.after \in {"store", "laundered"}
MutexInv == \A t \in Threads : MutexOf(t, th[t], ilock)

(* fc->lock is kept while a page is copied in place and while a request    *)
(* that was counted down is finished.                                      *)
LockInv ==
    /\ \A t \in Threads : th[t].pc = "inplace" => fclock = t
    /\ \A q \in Reqs : req[q].st = "finishing" => fclock = q

(* The request that a thread fills.                                        *)
FillOf(r) ==
    /\ r.pc \in {"inflight", "inplace", "count", "send"} => r.req # None
    /\ r.pc = "alloc" /\ r.isw => r.req = None
    /\ r.pc = "flush" /\ r.after = "alloc" => r.req = None
    /\ r.pc \in {"inflight", "inplace"} => req[r.req].data = <<>>
    /\ r.pc = "inplace" => /\ r.old \in Reqs \ {r.req}
                           /\ Num(r.old) = 1
FillInv == \A t \in Threads : FillOf(th[t])

(* A request is in one place only: with the thread that fills it, in the   *)
(* queue of the inode, in the chain of one other request, or in the queue  *)
(* of the device.                                                          *)
FreeInv ==
    /\ \A q \in Reqs : req[q].st = "free" => req[q] = FreeReq
    /\ \A q \in Reqs : req[q].st \in {"pending", "read"}
                       => req[q].size <= Num(q)
OwnInv ==
    /\ \A t \in Threads : th[t].req # None => req[th[t].req].st = "new"
    /\ \A t, u \in Threads :
         t # u /\ th[t].req # None => th[t].req # th[u].req
QueueInv ==
    /\ \A i \in 1 .. Len(queued) : req[queued[i]].st = "queued"
    /\ \A i, j \in 1 .. Len(queued) : queued[i] = queued[j] => i = j
ChainInv ==
    /\ \A q \in Reqs : \A i \in 1 .. Len(req[q].chain) :
         req[req[q].chain[i]].st = "chained"
    /\ \A q, r \in Reqs :
         \A i \in 1 .. Len(req[q].chain), j \in 1 .. Len(req[r].chain) :
            req[q].chain[i] = req[r].chain[j] => q = r /\ i = j
PendInv ==
    connected => /\ pend \in Seq(Reqs)
                 /\ \A i \in 1 .. Len(pend) : req[pend[i]].st = "pending"
                 /\ \A i, j \in 1 .. Len(pend) : pend[i] = pend[j] => i = j

(* A thread that is asleep waits for something that has not happened, or   *)
(* for a wake-up that is certain.                                          *)
SleepInv ==
    \A t \in asleep :
        \/ th[t].pc = "waitpage" /\ fuse_page_is_writeback(th[t].page)
        \/ th[t].pc = "waitwrites"
           /\ (writectr # FUSE_NOWRITE
               \/ \E q \in Reqs : req[q].st = "finishing")

WriteInv ==
    /\ TypeOK /\ MutexInv /\ LockInv /\ FillInv
    /\ FreeInv /\ OwnInv /\ QueueInv /\ ChainInv /\ PendInv
    /\ SleepInv /\ WritectrExact

(***************************************************************************)
(* Lemmas on numbers and sequences                                         *)
(***************************************************************************)

(* A finite set of numbers has a least and a greatest element: the sets of *)
(* the elements below each element are ordered by inclusion, which is well *)
(* founded.                                                                *)
LEMMA InclusionIsWellFounded ==
    ASSUME NEW S, IsFiniteSet(S)
    PROVE  IsWellFoundedOn(StrictSubsetOrdering(S), SUBSET S)
  BY FS_StrictSubsetOrderingWellFounded, FS_FiniteSubsetsOfFinite

LEMMA LeastElement ==
    ASSUME NEW n \in Nat, NEW S \in SUBSET (0 .. n), S # {} PROVE Min(S) \in S
<1> DEFINE Below(x) == {y \in S : y <= x}
           T == {Below(x) : x \in S}
<1>0. ASSUME NEW x \in S, NEW y \in S
      PROVE  /\ Below(x) \subseteq S /\ x \in Below(x)
             /\ y < x => Below(y) \subseteq Below(x) /\ x \notin Below(y)
  <2>1. x \in Int /\ y \in Int /\ \A z \in S : z \in Int
    OBVIOUS
  <2>2. ASSUME y < x, NEW z \in Below(y) PROVE z \in Below(x)
    BY <2>1, <2>2
  <2>3. y < x => x \notin Below(y)
    BY <2>1
  <2>4. Below(x) \subseteq S /\ x \in Below(x)
    BY <2>1
  <2> HIDE DEF Below
  <2> QED BY <2>2, <2>3, <2>4
<1>1. IsFiniteSet(S)
  <2>1. IsFiniteSet(0 .. n)
    BY FS_Interval
  <2> QED BY <2>1, FS_Subset
<1> HIDE DEF Below
<1>2. T \subseteq SUBSET S /\ T # {}
  <2>1. \A A \in T : A \in SUBSET S
    BY <1>0
  <2>2. PICK x \in S : TRUE
    OBVIOUS
  <2>3. Below(x) \in T
    BY <2>2
  <2> QED BY <2>1, <2>3
<1>3. PICK A \in T : \A B \in T : ~(<<B, A>> \in StrictSubsetOrdering(S))
  <2> HIDE DEF T
  <2>1. IsWellFoundedOn(StrictSubsetOrdering(S), SUBSET S)
    BY <1>1, InclusionIsWellFounded
  <2> QED BY <2>1, <1>2, WFMin
<1>3a. \A B \in T : B \subseteq A => B = A
  BY <1>2, <1>3 DEF StrictSubsetOrdering
<1>4. PICK x \in S : A = Below(x)
  BY <1>3
<1>5. ASSUME NEW y \in S, y < x PROVE FALSE
  <2>1. Below(y) \in T /\ Below(y) \subseteq Below(x) /\ x \notin Below(y)
    BY <1>5, <1>0
  <2>2. Below(y) = Below(x)
    BY <2>1, <1>3a, <1>4
  <2> QED BY <2>1, <2>2, <1>0
<1>6. \A y \in S : x <= y
  BY <1>5
<1> QED
  BY <1>6 DEF Min

LEMMA GreatestElement ==
    ASSUME NEW n \in Nat, NEW S \in SUBSET (0 .. n), S # {} PROVE Max(S) \in S
<1> DEFINE Above(x) == {y \in S : y >= x}
           T == {Above(x) : x \in S}
<1>0. ASSUME NEW x \in S, NEW y \in S
      PROVE  /\ Above(x) \subseteq S /\ x \in Above(x)
             /\ y > x => Above(y) \subseteq Above(x) /\ x \notin Above(y)
  <2>1. x \in Int /\ y \in Int /\ \A z \in S : z \in Int
    OBVIOUS
  <2>2. ASSUME y > x, NEW z \in Above(y) PROVE z \in Above(x)
    BY <2>1, <2>2
  <2>3. y > x => x \notin Above(y)
    BY <2>1
  <2>4. Above(x) \subseteq S /\ x \in Above(x)
    BY <2>1
  <2> HIDE DEF Above
  <2> QED BY <2>2, <2>3, <2>4
<1>1. IsFiniteSet(S)
  <2>1. IsFiniteSet(0 .. n)
    BY FS_Interval
  <2> QED BY <2>1, FS_Subset
<1> HIDE DEF Above
<1>2. T \subseteq SUBSET S /\ T # {}
  <2>1. \A A \in T : A \in SUBSET S
    BY <1>0
  <2>2. PICK x \in S : TRUE
    OBVIOUS
  <2>3. Above(x) \in T
    BY <2>2
  <2> QED BY <2>1, <2>3
<1>3. PICK A \in T : \A B \in T : ~(<<B, A>> \in StrictSubsetOrdering(S))
  <2> HIDE DEF T
  <2>1. IsWellFoundedOn(StrictSubsetOrdering(S), SUBSET S)
    BY <1>1, InclusionIsWellFounded
  <2> QED BY <2>1, <1>2, WFMin
<1>3a. \A B \in T : B \subseteq A => B = A
  BY <1>2, <1>3 DEF StrictSubsetOrdering
<1>4. PICK x \in S : A = Above(x)
  BY <1>3
<1>5. ASSUME NEW y \in S, y > x PROVE FALSE
  <2>1. Above(y) \in T /\ Above(y) \subseteq Above(x) /\ x \notin Above(y)
    BY <1>5, <1>0
  <2>2. Above(y) = Above(x)
    BY <2>1, <1>3a, <1>4
  <2> QED BY <2>1, <2>2, <1>0
<1>6. \A y \in S : x >= y
  BY <1>5
<1> QED
  BY <1>6 DEF Max

LEMMA TwoNumbers ==
    ASSUME NEW a \in Nat, NEW b \in Nat
    PROVE  /\ Min({a, b}) \in Nat /\ Min({a, b}) <= a
           /\ Max({a, b}) \in Nat
<1>1. CASE a <= b
  <2>1. Min({a, b}) = a /\ Max({a, b}) = b
    BY <1>1 DEF Min, Max
  <2> QED BY <1>1, <2>1
<1>2. CASE b < a
  <2>1. Min({a, b}) = b /\ Max({a, b}) = a
    BY <1>2 DEF Min, Max
  <2> QED BY <1>2, <2>1
<1> QED
  BY <1>1, <1>2

LEMMA AppendOne ==
    ASSUME NEW S, NEW s \in Seq(S), NEW e \in S
    PROVE  /\ Append(s, e) \in Seq(S) /\ Len(Append(s, e)) = Len(s) + 1
           /\ \A i \in 1 .. Len(s) + 1 :
                Append(s, e)[i] = IF i <= Len(s) THEN s[i] ELSE e
  BY AppendProperties, LenProperties

LEMMA AppendDistinct ==
    ASSUME NEW S, NEW s \in Seq(S), NEW e \in S, \A i \in 1 .. Len(s) : s[i] # e,
           \A i, j \in 1 .. Len(s) : s[i] = s[j] => i = j
    PROVE  \A i, j \in 1 .. Len(Append(s, e)) :
              Append(s, e)[i] = Append(s, e)[j] => i = j
<1>1. PICK a : a = Append(s, e)
  OBVIOUS
<1>2. Len(s) \in Nat
  BY LenProperties
<1>3. /\ Len(a) = Len(s) + 1
      /\ \A i \in 1 .. Len(s) + 1 : a[i] = IF i <= Len(s) THEN s[i] ELSE e
  BY <1>1, AppendOne
<1>4. ASSUME NEW i \in 1 .. Len(a)
      PROVE  \/ i \in 1 .. Len(s) /\ a[i] = s[i]
             \/ i = Len(s) + 1 /\ a[i] = e
  BY <1>2, <1>3
<1>5. ASSUME NEW i \in 1 .. Len(a), NEW j \in 1 .. Len(a), a[i] = a[j]
      PROVE  i = j
  <2>1. CASE i \in 1 .. Len(s) /\ a[i] = s[i]
    BY <1>4, <1>5, <2>1
  <2>2. CASE i = Len(s) + 1 /\ a[i] = e
    BY <1>4, <1>5, <2>2
  <2> QED BY <1>4, <2>1, <2>2
<1> QED BY <1>1, <1>5

(* A new request is put into a chain at place i.                           *)
Insert(s, i, x) == SubSeq(s, 1, i - 1) \o <<x>> \o SubSeq(s, i, Len(s))

(* What that makes of the chain: the elements, and that they are distinct. *)
Inserted(a, s, i, x) ==
    /\ Len(a) = Len(s) + 1
    /\ \A k \in 1 .. Len(s) + 1 :
         a[k] = IF k < i THEN s[k] ELSE IF k = i THEN x ELSE s[k - 1]
Joined(a, s, x) ==
    /\ \A k \in 1 .. Len(a) : a[k] = x \/ \E m \in 1 .. Len(s) : a[k] = s[m]
    /\ \A k, m \in 1 .. Len(a) : a[k] = a[m] => k = m

LEMMA InsertOne ==
    ASSUME NEW S, NEW s \in Seq(S), NEW i \in 1 .. Len(s) + 1, NEW x \in S
    PROVE  /\ Insert(s, i, x) \in Seq(S)
           /\ Inserted(Insert(s, i, x), s, i, x)
<1> DEFINE a == SubSeq(s, 1, i - 1)
           b == SubSeq(s, i, Len(s))
<1>0. Len(s) \in Nat /\ \A k \in 1 .. Len(s) : s[k] \in S
  BY LenProperties, ElementOfSeq
<1>1. /\ a \in Seq(S) /\ Len(a) = i - 1
      /\ \A k \in 1 .. i - 1 : a[k] = s[k]
  <2>1. \A k \in 1 .. i - 1 : s[k] \in S
    BY <1>0
  <2>2. /\ a \in Seq(S) /\ Len(a) = IF 1 <= i - 1 THEN (i - 1) - 1 + 1 ELSE 0
        /\ \A k \in 1 .. (i - 1) - 1 + 1 : a[k] = s[1 + k - 1]
    BY <2>1, <1>0, SubSeqProperties
  <2> QED BY <2>2, <1>0
<1>2. /\ b \in Seq(S) /\ Len(b) = Len(s) - i + 1
      /\ \A k \in 1 .. Len(s) - i + 1 : b[k] = s[i + k - 1]
  <2>1. \A k \in i .. Len(s) : s[k] \in S
    BY <1>0
  <2>2. /\ b \in Seq(S) /\ Len(b) = IF i <= Len(s) THEN Len(s) - i + 1 ELSE 0
        /\ \A k \in 1 .. Len(s) - i + 1 : b[k] = s[i + k - 1]
    BY <2>1, <1>0, SubSeqProperties
  <2> QED BY <2>2, <1>0
<1> HIDE DEF a, b
<1>3. <<x>> \in Seq(S) /\ Len(<<x>>) = 1 /\ <<x>>[1] = x
  OBVIOUS
<1>4. /\ a \o <<x>> \in Seq(S) /\ Len(a \o <<x>>) = i
      /\ \A k \in 1 .. i : (a \o <<x>>)[k] = IF k <= i - 1 THEN a[k] ELSE x
  <2>1. /\ a \o <<x>> \in Seq(S) /\ Len(a \o <<x>>) = Len(a) + Len(<<x>>)
        /\ \A k \in 1 .. Len(a) + Len(<<x>>) : (a \o <<x>>)[k] =
              IF k <= Len(a) THEN a[k] ELSE <<x>>[k - Len(a)]
    BY <1>1, <1>3, ConcatProperties
  <2> QED BY <2>1, <1>1, <1>3
<1>5. PICK c : c = a \o <<x>>
  OBVIOUS
<1>5a. c \in Seq(S) /\ Len(c) = i
      /\ \A k \in 1 .. i : c[k] = IF k <= i - 1 THEN a[k] ELSE x
  BY <1>4, <1>5
<1>6. /\ c \o b \in Seq(S) /\ Len(c \o b) = Len(c) + Len(b)
      /\ \A k \in 1 .. Len(c) + Len(b) : (c \o b)[k] =
              IF k <= Len(c) THEN c[k] ELSE b[k - Len(c)]
  <2>1. c \in Seq(S) /\ b \in Seq(S)
    BY <1>5a, <1>2
  <2> QED BY <2>1, ConcatProperties
<1>7. Insert(s, i, x) = c \o b
  BY <1>5 DEF Insert, a, b
<1>8. /\ c \o b \in Seq(S) /\ Len(c \o b) = Len(s) + 1
      /\ \A k \in 1 .. Len(s) + 1 :
            (c \o b)[k] = IF k < i THEN s[k] ELSE IF k = i THEN x ELSE s[k - 1]
  <2>1. c \o b \in Seq(S) /\ Len(c \o b) = Len(s) + 1
    BY <1>0, <1>2, <1>5a, <1>6
  <2>2. ASSUME NEW k \in 1 .. Len(s) + 1
        PROVE  (c \o b)[k] = IF k < i THEN s[k]
                              ELSE IF k = i THEN x ELSE s[k - 1]
    <3>1. (c \o b)[k] = IF k <= i THEN c[k] ELSE b[k - i]
      BY <1>0, <1>2, <1>5a, <1>6
    <3>2. CASE k < i
      BY <3>1, <3>2, <1>1, <1>5a, <1>0
    <3>3. CASE k = i
      BY <3>1, <3>3, <1>5a, <1>0
    <3>4. CASE k > i
      <4>1. k - i \in 1 .. Len(s) - i + 1 /\ i + (k - i) - 1 = k - 1
        BY <3>4, <1>0
      <4>2. b[k - i] = s[k - 1]
        BY <4>1, <1>2
      <4> QED BY <4>2, <3>1, <3>4
    <3>5. k < i \/ k = i \/ k > i
      BY <1>0
    <3> QED BY <3>2, <3>3, <3>4, <3>5
  <2> QED BY <2>1, <2>2
<1> QED
  BY <1>7, <1>8 DEF Inserted

LEMMA InsertDistinct ==
    ASSUME NEW S, NEW s \in Seq(S), NEW i \in 1 .. Len(s) + 1, NEW x \in S,
           \A k \in 1 .. Len(s) : s[k] # x,
           \A k, m \in 1 .. Len(s) : s[k] = s[m] => k = m
    PROVE  Joined(Insert(s, i, x), s, x)
<1>2. Len(s) \in Nat
  OBVIOUS
<1> DEFINE a == Insert(s, i, x)
<1>1. Inserted(a, s, i, x)
  BY InsertOne
<1> HIDE DEF a
<1>3. /\ Len(a) = Len(s) + 1
      /\ \A k \in 1 .. Len(s) + 1 :
           a[k] = IF k < i THEN s[k] ELSE IF k = i THEN x ELSE s[k - 1]
  BY <1>1 DEF Inserted
<1>4. ASSUME NEW k \in 1 .. Len(a)
      PROVE  \/ k = i /\ a[k] = x
             \/ k < i /\ k \in 1 .. Len(s) /\ a[k] = s[k]
             \/ k > i /\ k - 1 \in 1 .. Len(s) /\ a[k] = s[k - 1]
  <2>1. a[k] = IF k < i THEN s[k] ELSE IF k = i THEN x ELSE s[k - 1]
    BY <1>3
  <2> QED BY <1>2, <1>3, <2>1
<1>5. ASSUME NEW k \in 1 .. Len(a), NEW m \in 1 .. Len(a), a[k] = a[m]
      PROVE  k = m
  <2>1. CASE k = i /\ a[k] = x
    BY <1>4, <1>5, <2>1
  <2>2. CASE k < i /\ k \in 1 .. Len(s) /\ a[k] = s[k]
    <3>1. CASE m = i /\ a[m] = x
      BY <1>5, <2>2, <3>1
    <3>2. CASE m < i /\ m \in 1 .. Len(s) /\ a[m] = s[m]
      BY <1>5, <2>2, <3>2
    <3>3. CASE m > i /\ m - 1 \in 1 .. Len(s) /\ a[m] = s[m - 1]
      <4>1. k = m - 1
        BY <1>5, <2>2, <3>3
      <4> QED BY <4>1, <2>2, <3>3, <1>2
    <3> QED BY <1>4, <3>1, <3>2, <3>3
  <2>3. CASE k > i /\ k - 1 \in 1 .. Len(s) /\ a[k] = s[k - 1]
    <3>1. CASE m = i /\ a[m] = x
      BY <1>5, <2>3, <3>1
    <3>2. CASE m < i /\ m \in 1 .. Len(s) /\ a[m] = s[m]
      <4>1. k - 1 = m
        BY <1>5, <2>3, <3>2
      <4> QED BY <4>1, <2>3, <3>2, <1>2
    <3>3. CASE m > i /\ m - 1 \in 1 .. Len(s) /\ a[m] = s[m - 1]
      <4>1. k - 1 = m - 1
        BY <1>5, <2>3, <3>3
      <4> QED BY <4>1, <1>2, <1>3
    <3> QED BY <1>4, <3>1, <3>2, <3>3
  <2> QED BY <1>4, <2>1, <2>2, <2>3
<1>6. \A k \in 1 .. Len(a) : a[k] = x \/ \E m \in 1 .. Len(s) : a[k] = s[m]
  BY <1>4
<1>7. Joined(a, s, x)
  BY <1>5, <1>6 DEF Joined
<1> QED BY <1>7 DEF a

USE FuseWritebackAssumption DEF Pages

(***************************************************************************)
(* Steps of a thread                                                       *)
(***************************************************************************)

(* Thread t goes on with the registers s, and takes or releases i_mutex if *)
(* it is free or its own.                                                  *)
Stepped(t, s) ==
    /\ s \in Registers /\ th' = [th EXCEPT ![t] = s]
    /\ MutexOf(t, s, ilock')
    /\ UNCHANGED ilock \/ (ilock = None /\ ilock' = t) \/ ilock = t

LEMMA SteppedThread ==
    ASSUME WriteInv, NEW t \in Threads, NEW s, Stepped(t, s)
    PROVE  /\ th' \in [Threads -> Registers] /\ MutexInv'
           /\ th'[t] = s /\ \A u \in Threads \ {t} : th'[u] = th[u]
<1>1. /\ th' \in [Threads -> Registers]
      /\ th'[t] = s /\ \A u \in Threads \ {t} : th'[u] = th[u]
  BY DEF WriteInv, TypeOK, Stepped
<1>2. ASSUME NEW u \in Threads PROVE MutexOf(u, th[u], ilock)
  BY DEF WriteInv, MutexInv
<1>3. ASSUME NEW u \in Threads PROVE MutexOf(u, th'[u], ilock')
  <2>1. CASE u = t
    BY <1>1, <2>1 DEF Stepped
  <2>2. CASE u # t
    <3>1. th'[u] = th[u] BY <1>1, <2>2
    <3>2. CASE UNCHANGED ilock
      BY <3>1, <3>2, <1>2
    <3>3. CASE ilock \in {None, t}
      BY <3>1, <3>3, <2>2, <1>2 DEF MutexOf
    <3> QED BY <3>2, <3>3 DEF Stepped
  <2> QED BY <2>1, <2>2
<1> QED BY <1>1, <1>3 DEF MutexInv

(* A step that changes the registers of the thread only: the thread        *)
(* neither sleeps nor holds fc->lock, it enters or leaves no section       *)
(* without writes, and it takes no request.                                *)
Quiet(r, s) ==
    /\ r.pc \notin {"waitpage", "waitwrites", "inplace", "section", "replied"}
    /\ s.pc \notin {"waitwrites", "section", "replied",
                    "inflight", "inplace", "count", "flush"}
    /\ s.req \in {r.req, None}
    /\ s.pc = "send" => s.req # None
    /\ s.pc = "alloc" /\ s.isw => s.req = None
Moved(t) ==
    /\ TypeOK' /\ UNCHANGED <<connected, reqVars>>
    /\ \E s : Stepped(t, s) /\ Quiet(th[t], s)

LEMMA ZeroPage == 0 \in Pages
  OBVIOUS

LEMMA IdleRegisters ==
    /\ Idle \in Registers /\ Idle.op = "none" /\ Idle.pc = "idle"
    /\ Idle.req = None /\ Idle.after = "idle"
  BY DEF Idle, Registers, PC, After, OpNames

Typed == isize' \in Nat /\ ver' \in Nat /\ cache' \in [Pages -> Nat]
LEMMA QuietMove ==
    ASSUME WriteInv, NEW t \in Threads, NEW s, Stepped(t, s), Quiet(th[t], s),
           UNCHANGED <<connected, reqVars>>, Typed
    PROVE  Moved(t)
<1>1. th' \in [Threads -> Registers]
  BY SteppedThread
<1>2. TypeOK'
  BY <1>1 DEF WriteInv, TypeOK, reqVars, listVars, Typed
<1> QED BY <1>2 DEF Moved

LEMMA By_flush_begin ==
    ASSUME WriteInv, NEW t \in Threads, flush_begin(t)
    PROVE  Moved(t)
<1>1. PICK r \in Registers : r = th[t]
  BY DEF WriteInv, TypeOK
<1>m. MutexOf(t, r, ilock)
  BY <1>1 DEF WriteInv, MutexInv
<1>2. /\ UNCHANGED <<connected, reqVars>>
      /\ /\ r.pc = "idle" /\ UNCHANGED ilock
            /\ th' = [th EXCEPT ![t] = [r EXCEPT !.op = "flush", !.pc = "scan"]]
  BY <1>1 DEF flush_begin, inodeVars, WriteInv, TypeOK
<1>3. UNCHANGED <<isize, cache, ver>>
  BY DEF flush_begin, inodeVars, dataVars, pageVars
<1>4. Typed
  BY <1>3 DEF WriteInv, TypeOK, Typed
<1>5. ASSUME r.pc = "idle", UNCHANGED ilock,
             th' = [th EXCEPT ![t] = [r EXCEPT !.op = "flush", !.pc = "scan"]]
      PROVE  Moved(t)
  <2> DEFINE x == [r EXCEPT !.op = "flush", !.pc = "scan"]
  <2>1. /\ x \in Registers
        /\ x.op = "flush" /\ x.pc = "scan" /\ x.req = r.req /\ x.after = r.after
    BY DEF Registers, PC, After, OpNames
  <2>2. th' = [th EXCEPT ![t] = x]
    BY <1>5
  <2> HIDE DEF x
  <2>3. MutexOf(t, x, ilock')
    BY <1>5, <2>1, <1>m DEF MutexOf, Holding, Ending, Registers, After
  <2>4. Stepped(t, x)
    BY <1>5, <2>1, <2>2, <2>3 DEF Stepped
  <2>5. Quiet(r, x)
    BY <1>5, <2>1 DEF Quiet, Registers, After
  <2> QED BY <2>4, <2>5, <1>1, <1>2, <1>4, QuietMove
<1> QED BY <1>2, <1>5

LEMMA By_fsync_begin ==
    ASSUME WriteInv, NEW t \in Threads, fsync_begin(t)
    PROVE  Moved(t)
<1>1. PICK r \in Registers : r = th[t]
  BY DEF WriteInv, TypeOK
<1>m. MutexOf(t, r, ilock)
  BY <1>1 DEF WriteInv, MutexInv
<1>2. /\ UNCHANGED <<connected, reqVars>>
      /\ /\ r.pc = "idle" /\ ilock = None /\ ilock' = t
            /\ th' = [th EXCEPT ![t] = [r EXCEPT !.op = "fsync", !.pc = "scan"]]
  BY <1>1 DEF fsync_begin, inodeVars, WriteInv, TypeOK
<1>3. UNCHANGED <<isize, cache, ver>>
  BY DEF fsync_begin, inodeVars, dataVars, pageVars
<1>4. Typed
  BY <1>3 DEF WriteInv, TypeOK, Typed
<1>5. ASSUME r.pc = "idle", ilock = None, ilock' = t,
             th' = [th EXCEPT ![t] = [r EXCEPT !.op = "fsync", !.pc = "scan"]]
      PROVE  Moved(t)
  <2> DEFINE x == [r EXCEPT !.op = "fsync", !.pc = "scan"]
  <2>1. /\ x \in Registers
        /\ x.op = "fsync" /\ x.pc = "scan" /\ x.req = r.req /\ x.after = r.after
    BY DEF Registers, PC, After, OpNames
  <2>2. th' = [th EXCEPT ![t] = x]
    BY <1>5
  <2> HIDE DEF x
  <2>3. MutexOf(t, x, ilock')
    BY <1>5, <2>1, <1>m DEF MutexOf, Holding, Ending, Registers, After
  <2>4. Stepped(t, x)
    BY <1>5, <2>1, <2>2, <2>3 DEF Stepped
  <2>5. Quiet(r, x)
    BY <1>5, <2>1 DEF Quiet, Registers, After
  <2> QED BY <2>4, <2>5, <1>1, <1>2, <1>4, QuietMove
<1> QED BY <1>2, <1>5

LEMMA By_write_cache_pages ==
    ASSUME WriteInv, NEW t \in Threads, write_cache_pages(t)
    PROVE  Moved(t)
<1>1. PICK r \in Registers : r = th[t]
  BY DEF WriteInv, TypeOK
<1>m. MutexOf(t, r, ilock)
  BY <1>1 DEF WriteInv, MutexInv
<1> DEFINE tagged == {p \in Pages : p >= r.cur /\ DirtyTag(p)}
<1>l. tagged # {} => Min(tagged) \in Pages
  <2>1. tagged \subseteq 0 .. NumPages - 1 /\ NumPages - 1 \in Nat
    OBVIOUS
  <2> HIDE DEF tagged
  <2> QED BY <2>1, LeastElement
<1> HIDE DEF tagged
<1>2. /\ UNCHANGED <<connected, reqVars>>
      /\ \/ /\ r.pc = "scan" /\ UNCHANGED ilock
            /\ th' = [th EXCEPT ![t] = [r EXCEPT !.pc = "scanned"]]
         \/ \E p \in Pages : /\ r.pc = "scan" /\ UNCHANGED ilock
                             /\ th' = [th EXCEPT ![t] = [r EXCEPT !.cur = p + 1]]
         \/ \E p \in Pages : /\ r.pc = "scan" /\ UNCHANGED ilock
                             /\ th' = [th EXCEPT ![t] = [r EXCEPT !.pc = "fill", !.page = p]]
  <2>0. r.pc = "scan" /\ UNCHANGED <<connected, reqVars, ilock>>
    BY <1>1 DEF write_cache_pages, inodeVars
  <2>1. CASE tagged = {}
    BY <1>1, <2>0, <2>1 DEF write_cache_pages, tagged, Goto, WriteInv, TypeOK
  <2>2. CASE tagged # {}
    <3>1. PICK p \in Pages : p = Min(tagged)
      BY <1>l, <2>2
    <3>2. \/ th' = [th EXCEPT ![t].cur = p + 1]
          \/ th' = [th EXCEPT ![t].pc = "fill", ![t].page = p]
      BY <1>1, <2>2, <3>1 DEF write_cache_pages, tagged
    <3>3. \/ th' = [th EXCEPT ![t] = [r EXCEPT !.cur = p + 1]]
          \/ th' = [th EXCEPT ![t] = [r EXCEPT !.pc = "fill", !.page = p]]
      BY <3>2, <1>1 DEF WriteInv, TypeOK
    <3> QED BY <3>3, <2>0
  <2> QED BY <2>1, <2>2
<1>3. UNCHANGED <<isize, cache, ver>>
  BY DEF write_cache_pages, Goto, inodeVars, dataVars, pageVars
<1>4. Typed
  BY <1>3 DEF WriteInv, TypeOK, Typed
<1>5. ASSUME r.pc = "scan", UNCHANGED ilock,
             th' = [th EXCEPT ![t] = [r EXCEPT !.pc = "scanned"]]
      PROVE  Moved(t)
  <2> DEFINE x == [r EXCEPT !.pc = "scanned"]
  <2>1. /\ x \in Registers
        /\ x.pc = "scanned" /\ x.op = r.op /\ x.req = r.req /\ x.after = r.after
    BY DEF Registers, PC, After, OpNames
  <2>2. th' = [th EXCEPT ![t] = x]
    BY <1>5
  <2> HIDE DEF x
  <2>3. MutexOf(t, x, ilock')
    BY <1>5, <2>1, <1>m DEF MutexOf, Holding, Ending, Registers, After
  <2>4. Stepped(t, x)
    BY <1>5, <2>1, <2>2, <2>3 DEF Stepped
  <2>5. Quiet(r, x)
    BY <1>5, <2>1 DEF Quiet, Registers, After
  <2> QED BY <2>4, <2>5, <1>1, <1>2, <1>4, QuietMove
<1>6. ASSUME NEW p \in Pages, r.pc = "scan", UNCHANGED ilock,
             th' = [th EXCEPT ![t] = [r EXCEPT !.cur = p + 1]]
      PROVE  Moved(t)
  <2> DEFINE x == [r EXCEPT !.cur = p + 1]
  <2>1. /\ x \in Registers
        /\ x.op = r.op /\ x.pc = r.pc /\ x.req = r.req /\ x.after = r.after
    BY DEF Registers, PC, After, OpNames
  <2>2. th' = [th EXCEPT ![t] = x]
    BY <1>6
  <2> HIDE DEF x
  <2>3. MutexOf(t, x, ilock')
    BY <1>6, <2>1, <1>m DEF MutexOf, Holding, Ending, Registers, After
  <2>4. Stepped(t, x)
    BY <1>6, <2>1, <2>2, <2>3 DEF Stepped
  <2>5. Quiet(r, x)
    BY <1>6, <2>1 DEF Quiet, Registers, After
  <2> QED BY <2>4, <2>5, <1>1, <1>2, <1>4, QuietMove
<1>7. ASSUME NEW p \in Pages, r.pc = "scan", UNCHANGED ilock,
             th' = [th EXCEPT ![t] = [r EXCEPT !.pc = "fill", !.page = p]]
      PROVE  Moved(t)
  <2> DEFINE x == [r EXCEPT !.pc = "fill", !.page = p]
  <2>1. /\ x \in Registers
        /\ x.pc = "fill" /\ x.op = r.op /\ x.req = r.req /\ x.after = r.after
    BY DEF Registers, PC, After, OpNames
  <2>2. th' = [th EXCEPT ![t] = x]
    BY <1>7
  <2> HIDE DEF x
  <2>3. MutexOf(t, x, ilock')
    BY <1>7, <2>1, <1>m DEF MutexOf, Holding, Ending, Registers, After
  <2>4. Stepped(t, x)
    BY <1>7, <2>1, <2>2, <2>3 DEF Stepped
  <2>5. Quiet(r, x)
    BY <1>7, <2>1 DEF Quiet, Registers, After
  <2> QED BY <2>4, <2>5, <1>1, <1>2, <1>4, QuietMove
<1> QED BY <1>2, <1>5, <1>6, <1>7

LEMMA By_fill_check ==
    ASSUME WriteInv, NEW t \in Threads, fill_check(t)
    PROVE  Moved(t)
<1>1. PICK r \in Registers : r = th[t]
  BY DEF WriteInv, TypeOK
<1>m. MutexOf(t, r, ilock)
  BY <1>1 DEF WriteInv, MutexInv
<1>2. /\ UNCHANGED <<connected, reqVars>>
      /\ \/ \E b \in BOOLEAN : /\ r.pc = "fill" /\ r.req # None /\ UNCHANGED ilock
                               /\ th' = [th EXCEPT ![t] = [r EXCEPT !.isw = b, !.after = "alloc", !.pc = "send"]]
         \/ \E b \in BOOLEAN : /\ r.pc = "fill" /\ (b => r.req = None) /\ UNCHANGED ilock
                               /\ th' = [th EXCEPT ![t] = [r EXCEPT !.isw = b, !.after = "idle", !.pc = "alloc"]]
  <2>0. r.pc = "fill" /\ UNCHANGED <<connected, reqVars, ilock>>
    BY <1>1 DEF fill_check, inodeVars
  <2>1. PICK b \in BOOLEAN : b = fuse_page_is_writeback(r.page)
    BY DEF fuse_page_is_writeback
  <2>2. PICK c \in BOOLEAN :
           c = /\ r.req # None
               /\ b \/ Num(r.req) = MaxPages \/ Max(r.pages) + 1 # r.page
    OBVIOUS
  <2>3. th' = [th EXCEPT ![t].isw = b,
                         ![t].after = IF c THEN "alloc" ELSE "idle",
                         ![t].pc = IF c THEN "send" ELSE "alloc"]
    BY <1>1, <2>1, <2>2 DEF fill_check
  <2>4. CASE c
    <3>1. th' = [th EXCEPT ![t] = [r EXCEPT !.isw = b, !.after = "alloc", !.pc = "send"]]
      BY <2>3, <2>4, <1>1 DEF WriteInv, TypeOK
    <3> QED BY <3>1, <2>0, <2>2, <2>4
  <2>5. CASE ~c
    <3>1. th' = [th EXCEPT ![t] = [r EXCEPT !.isw = b, !.after = "idle", !.pc = "alloc"]]
      BY <2>3, <2>5, <1>1 DEF WriteInv, TypeOK
    <3> QED BY <3>1, <2>0, <2>2, <2>5
  <2> QED BY <2>4, <2>5
<1>3. UNCHANGED <<isize, cache, ver>>
  BY DEF fill_check, inodeVars, dataVars, pageVars
<1>4. Typed
  BY <1>3 DEF WriteInv, TypeOK, Typed
<1>5. ASSUME NEW b \in BOOLEAN, r.pc = "fill", r.req # None, UNCHANGED ilock,
             th' = [th EXCEPT ![t] = [r EXCEPT !.isw = b, !.after = "alloc", !.pc = "send"]]
      PROVE  Moved(t)
  <2> DEFINE x == [r EXCEPT !.isw = b, !.after = "alloc", !.pc = "send"]
  <2>1. /\ x \in Registers
        /\ x.isw = b /\ x.after = "alloc" /\ x.pc = "send" /\ x.op = r.op /\ x.req = r.req
    BY ZenonT(30) DEF Registers, PC, After, OpNames
  <2>2. th' = [th EXCEPT ![t] = x]
    BY <1>5
  <2> HIDE DEF x
  <2>3. MutexOf(t, x, ilock')
    BY <1>5, <2>1, <1>m DEF MutexOf, Holding, Ending, Registers, After
  <2>4. Stepped(t, x)
    BY <1>5, <2>1, <2>2, <2>3 DEF Stepped
  <2>5. Quiet(r, x)
    BY <1>5, <2>1 DEF Quiet, Registers, After
  <2> QED BY <2>4, <2>5, <1>1, <1>2, <1>4, QuietMove
<1>6. ASSUME NEW b \in BOOLEAN, r.pc = "fill", b => r.req = None, UNCHANGED ilock,
             th' = [th EXCEPT ![t] = [r EXCEPT !.isw = b, !.after = "idle", !.pc = "alloc"]]
      PROVE  Moved(t)
  <2> DEFINE x == [r EXCEPT !.isw = b, !.after = "idle", !.pc = "alloc"]
  <2>1. /\ x \in Registers
        /\ x.isw = b /\ x.after = "idle" /\ x.pc = "alloc" /\ x.op = r.op /\ x.req = r.req
    BY ZenonT(30) DEF Registers, PC, After, OpNames
  <2>2. th' = [th EXCEPT ![t] = x]
    BY <1>6
  <2> HIDE DEF x
  <2>3. MutexOf(t, x, ilock')
    BY <1>6, <2>1, <1>m DEF MutexOf, Holding, Ending, Registers, After
  <2>4. Stepped(t, x)
    BY <1>6, <2>1, <2>2, <2>3 DEF Stepped
  <2>5. Quiet(r, x)
    BY <1>6, <2>1 DEF Quiet, Registers, After
  <2> QED BY <2>4, <2>5, <1>1, <1>2, <1>4, QuietMove
<1> QED BY <1>2, <1>5, <1>6

LEMMA By_fill_fails ==
    ASSUME WriteInv, NEW t \in Threads, fill_fails(t)
    PROVE  Moved(t)
<1>1. PICK r \in Registers : r = th[t]
  BY DEF WriteInv, TypeOK
<1>m. MutexOf(t, r, ilock)
  BY <1>1 DEF WriteInv, MutexInv
<1>2. /\ UNCHANGED <<connected, reqVars>>
      /\ /\ r.pc = "alloc" /\ UNCHANGED ilock
            /\ th' = [th EXCEPT ![t] = [r EXCEPT !.pc = "scanned", !.page = 0, !.isw = FALSE, !.err = TRUE]]
  BY <1>1 DEF fill_fails, Lose, inodeVars, WriteInv, TypeOK
<1>3. UNCHANGED <<isize, cache, ver>>
  BY DEF fill_fails, Lose, inodeVars, dataVars, pageVars
<1>4. Typed
  BY <1>3 DEF WriteInv, TypeOK, Typed
<1>5. ASSUME r.pc = "alloc", UNCHANGED ilock,
             th' = [th EXCEPT ![t] = [r EXCEPT !.pc = "scanned", !.page = 0, !.isw = FALSE, !.err = TRUE]]
      PROVE  Moved(t)
  <2> DEFINE x == [r EXCEPT !.pc = "scanned", !.page = 0, !.isw = FALSE, !.err = TRUE]
  <2>1. /\ x \in Registers
        /\ x.pc = "scanned" /\ x.isw = FALSE /\ x.op = r.op /\ x.req = r.req /\ x.after = r.after
    BY ZeroPage DEF Registers, PC, After, OpNames
  <2>2. th' = [th EXCEPT ![t] = x]
    BY <1>5
  <2> HIDE DEF x
  <2>3. MutexOf(t, x, ilock')
    BY <1>5, <2>1, <1>m DEF MutexOf, Holding, Ending, Registers, After
  <2>4. Stepped(t, x)
    BY <1>5, <2>1, <2>2, <2>3 DEF Stepped
  <2>5. Quiet(r, x)
    BY <1>5, <2>1 DEF Quiet, Registers, After
  <2> QED BY <2>4, <2>5, <1>1, <1>2, <1>4, QuietMove
<1> QED BY <1>2, <1>5

LEMMA By_writepages_last ==
    ASSUME WriteInv, NEW t \in Threads, writepages_last(t)
    PROVE  Moved(t)
<1>1. PICK r \in Registers : r = th[t]
  BY DEF WriteInv, TypeOK
<1>m. MutexOf(t, r, ilock)
  BY <1>1 DEF WriteInv, MutexInv
<1>2. /\ UNCHANGED <<connected, reqVars>>
      /\ \/ /\ r.pc = "scanned" /\ r.req # None /\ UNCHANGED ilock
            /\ th' = [th EXCEPT ![t] = [r EXCEPT !.pc = "send", !.after = "written", !.err = FALSE, !.cur = 0]]
         \/ /\ r.pc = "scanned" /\ UNCHANGED ilock
            /\ th' = [th EXCEPT ![t] = [r EXCEPT !.pc = "written", !.cur = 0]]
  BY <1>1 DEF writepages_last, inodeVars, WriteInv, TypeOK
<1>3. UNCHANGED <<isize, cache, ver>>
  BY DEF writepages_last, inodeVars, dataVars, pageVars
<1>4. Typed
  BY <1>3 DEF WriteInv, TypeOK, Typed
<1>5. ASSUME r.pc = "scanned", r.req # None, UNCHANGED ilock,
             th' = [th EXCEPT ![t] = [r EXCEPT !.pc = "send", !.after = "written", !.err = FALSE, !.cur = 0]]
      PROVE  Moved(t)
  <2> DEFINE x == [r EXCEPT !.pc = "send", !.after = "written", !.err = FALSE, !.cur = 0]
  <2>1. /\ x \in Registers
        /\ x.pc = "send" /\ x.after = "written" /\ x.op = r.op /\ x.req = r.req
    BY ZenonT(30) DEF Registers, PC, After, OpNames
  <2>2. th' = [th EXCEPT ![t] = x]
    BY <1>5
  <2> HIDE DEF x
  <2>3. MutexOf(t, x, ilock')
    BY <1>5, <2>1, <1>m DEF MutexOf, Holding, Ending, Registers, After
  <2>4. Stepped(t, x)
    BY <1>5, <2>1, <2>2, <2>3 DEF Stepped
  <2>5. Quiet(r, x)
    BY <1>5, <2>1 DEF Quiet, Registers, After
  <2> QED BY <2>4, <2>5, <1>1, <1>2, <1>4, QuietMove
<1>6. ASSUME r.pc = "scanned", UNCHANGED ilock,
             th' = [th EXCEPT ![t] = [r EXCEPT !.pc = "written", !.cur = 0]]
      PROVE  Moved(t)
  <2> DEFINE x == [r EXCEPT !.pc = "written", !.cur = 0]
  <2>1. /\ x \in Registers
        /\ x.pc = "written" /\ x.op = r.op /\ x.req = r.req /\ x.after = r.after
    BY DEF Registers, PC, After, OpNames
  <2>2. th' = [th EXCEPT ![t] = x]
    BY <1>6
  <2> HIDE DEF x
  <2>3. MutexOf(t, x, ilock')
    BY <1>6, <2>1, <1>m DEF MutexOf, Holding, Ending, Registers, After
  <2>4. Stepped(t, x)
    BY <1>6, <2>1, <2>2, <2>3 DEF Stepped
  <2>5. Quiet(r, x)
    BY <1>6, <2>1 DEF Quiet, Registers, After
  <2> QED BY <2>4, <2>5, <1>1, <1>2, <1>4, QuietMove
<1> QED BY <1>2, <1>5, <1>6

LEMMA By_flush_end ==
    ASSUME WriteInv, NEW t \in Threads, flush_end(t)
    PROVE  Moved(t)
<1>1. PICK r \in Registers : r = th[t]
  BY DEF WriteInv, TypeOK
<1>m. MutexOf(t, r, ilock)
  BY <1>1 DEF WriteInv, MutexInv
<1>2. /\ UNCHANGED <<connected, reqVars>>
      /\ /\ r.pc = "written" /\ r.op = "flush" /\ UNCHANGED ilock
            /\ th' = [th EXCEPT ![t] = Idle]
  BY <1>1 DEF flush_end, At, inodeVars, WriteInv, TypeOK
<1>3. UNCHANGED <<isize, cache, ver>>
  BY DEF flush_end, At, inodeVars, dataVars, pageVars
<1>4. Typed
  BY <1>3 DEF WriteInv, TypeOK, Typed
<1>5. ASSUME r.pc = "written", r.op = "flush", UNCHANGED ilock,
             th' = [th EXCEPT ![t] = Idle]
      PROVE  Moved(t)
  <2>1. ilock' = ilock \/ ilock = t
    BY <1>5, <1>m DEF MutexOf, Holding, Ending
  <2>2. Stepped(t, Idle) /\ Quiet(r, Idle)
    BY <1>5, <2>1, IdleRegisters DEF Stepped, Quiet, MutexOf, Holding, Ending
  <2> QED BY <2>2, <1>1, <1>2, <1>4, QuietMove
<1> QED BY <1>2, <1>5

LEMMA By_reclaim_begin ==
    ASSUME WriteInv, NEW t \in Threads, NEW p \in Pages, reclaim_begin(t, p)
    PROVE  Moved(t)
<1>1. PICK r \in Registers : r = th[t]
  BY DEF WriteInv, TypeOK
<1>m. MutexOf(t, r, ilock)
  BY <1>1 DEF WriteInv, MutexInv
<1>2. /\ UNCHANGED <<connected, reqVars>>
      /\ /\ r.pc = "idle" /\ UNCHANGED ilock
            /\ th' = [th EXCEPT ![t] = [r EXCEPT !.op = "reclaim", !.pc = "writepage", !.page = p]]
  BY <1>1 DEF reclaim_begin, inodeVars, WriteInv, TypeOK
<1>3. UNCHANGED <<isize, cache, ver>>
  BY DEF reclaim_begin, inodeVars, dataVars, pageVars
<1>4. Typed
  BY <1>3 DEF WriteInv, TypeOK, Typed
<1>5. ASSUME r.pc = "idle", UNCHANGED ilock,
             th' = [th EXCEPT ![t] = [r EXCEPT !.op = "reclaim", !.pc = "writepage", !.page = p]]
      PROVE  Moved(t)
  <2> DEFINE x == [r EXCEPT !.op = "reclaim", !.pc = "writepage", !.page = p]
  <2>1. /\ x \in Registers
        /\ x.op = "reclaim" /\ x.pc = "writepage" /\ x.req = r.req /\ x.after = r.after
    BY DEF Registers, PC, After, OpNames
  <2>2. th' = [th EXCEPT ![t] = x]
    BY <1>5
  <2> HIDE DEF x
  <2>3. MutexOf(t, x, ilock')
    BY <1>5, <2>1, <1>m DEF MutexOf, Holding, Ending, Registers, After
  <2>4. Stepped(t, x)
    BY <1>5, <2>1, <2>2, <2>3 DEF Stepped
  <2>5. Quiet(r, x)
    BY <1>5, <2>1 DEF Quiet, Registers, After
  <2> QED BY <2>4, <2>5, <1>1, <1>2, <1>4, QuietMove
<1> QED BY <1>2, <1>5

LEMMA By_fuse_writepage ==
    ASSUME WriteInv, NEW t \in Threads, fuse_writepage(t)
    PROVE  Moved(t)
<1>1. PICK r \in Registers : r = th[t]
  BY DEF WriteInv, TypeOK
<1>m. MutexOf(t, r, ilock)
  BY <1>1 DEF WriteInv, MutexInv
<1>2. /\ UNCHANGED <<connected, reqVars>>
      /\ \/ /\ r.pc = "writepage" /\ UNCHANGED ilock
            /\ th' = [th EXCEPT ![t] = Idle]
         \/ \E p \in Pages : /\ r.pc = "writepage" /\ UNCHANGED ilock
                             /\ th' = [th EXCEPT ![t] = [r EXCEPT !.pc = "locked", !.pages = {p}, !.after = "reclaimed"]]
  <2>1. r.page \in Pages
    BY DEF Registers
  <2>2. \/ th' = [th EXCEPT ![t] = Idle]
        \/ th' = [th EXCEPT ![t] = [r EXCEPT !.pc = "locked", !.pages = {r.page},
                                             !.after = "reclaimed"]]
    BY <1>1 DEF fuse_writepage, WriteInv, TypeOK
  <2>3. r.pc = "writepage" /\ UNCHANGED <<connected, reqVars, ilock>>
    BY <1>1 DEF fuse_writepage, inodeVars
  <2> QED BY <2>1, <2>2, <2>3
<1>3. UNCHANGED <<isize, cache, ver>>
  BY DEF fuse_writepage, inodeVars, dataVars, pageVars
<1>4. Typed
  BY <1>3 DEF WriteInv, TypeOK, Typed
<1>5. ASSUME r.pc = "writepage", UNCHANGED ilock,
             th' = [th EXCEPT ![t] = Idle]
      PROVE  Moved(t)
  <2>1. ilock' = ilock \/ ilock = t
    BY <1>5, <1>m DEF MutexOf, Holding, Ending
  <2>2. Stepped(t, Idle) /\ Quiet(r, Idle)
    BY <1>5, <2>1, IdleRegisters DEF Stepped, Quiet, MutexOf, Holding, Ending
  <2> QED BY <2>2, <1>1, <1>2, <1>4, QuietMove
<1>6. ASSUME NEW p \in Pages, r.pc = "writepage", UNCHANGED ilock,
             th' = [th EXCEPT ![t] = [r EXCEPT !.pc = "locked", !.pages = {p}, !.after = "reclaimed"]]
      PROVE  Moved(t)
  <2> DEFINE x == [r EXCEPT !.pc = "locked", !.pages = {p}, !.after = "reclaimed"]
  <2>1. /\ x \in Registers
        /\ x.pc = "locked" /\ x.after = "reclaimed" /\ x.op = r.op /\ x.req = r.req
    BY ZenonT(30) DEF Registers, PC, After, OpNames
  <2>2. th' = [th EXCEPT ![t] = x]
    BY <1>6
  <2> HIDE DEF x
  <2>3. MutexOf(t, x, ilock')
    BY <1>6, <2>1, <1>m DEF MutexOf, Holding, Ending, Registers, After
  <2>4. Stepped(t, x)
    BY <1>6, <2>1, <2>2, <2>3 DEF Stepped
  <2>5. Quiet(r, x)
    BY <1>6, <2>1 DEF Quiet, Registers, After
  <2> QED BY <2>4, <2>5, <1>1, <1>2, <1>4, QuietMove
<1> QED BY <1>2, <1>5, <1>6

LEMMA By_writepage_fails ==
    ASSUME WriteInv, NEW t \in Threads, writepage_fails(t)
    PROVE  Moved(t)
<1>1. PICK r \in Registers : r = th[t]
  BY DEF WriteInv, TypeOK
<1>m. MutexOf(t, r, ilock)
  BY <1>1 DEF WriteInv, MutexInv
<1>2. /\ UNCHANGED <<connected, reqVars>>
      /\ /\ r.pc = "locked" /\ UNCHANGED ilock
            /\ th' = [th EXCEPT ![t] = [r EXCEPT !.pc = r.after, !.after = "idle", !.pages = {}, !.err = TRUE]]
  BY <1>1 DEF writepage_fails, Lose, inodeVars, WriteInv, TypeOK
<1>3. UNCHANGED <<isize, cache, ver>>
  BY DEF writepage_fails, Lose, inodeVars, dataVars, pageVars
<1>4. Typed
  BY <1>3 DEF WriteInv, TypeOK, Typed
<1>5. ASSUME r.pc = "locked", UNCHANGED ilock,
             th' = [th EXCEPT ![t] = [r EXCEPT !.pc = r.after, !.after = "idle", !.pages = {}, !.err = TRUE]]
      PROVE  Moved(t)
  <2> DEFINE x == [r EXCEPT !.pc = r.after, !.after = "idle", !.pages = {}, !.err = TRUE]
  <2>1. /\ x \in Registers
        /\ x.pc = r.after /\ x.after = "idle" /\ x.op = r.op /\ x.req = r.req
    <3>1. r.after \in PC
      BY DEF Registers, PC, After
    <3> QED BY <3>1 DEF Registers, After
  <2>2. th' = [th EXCEPT ![t] = x]
    BY <1>5
  <2> HIDE DEF x
  <2>3. MutexOf(t, x, ilock')
    BY <1>5, <2>1, <1>m DEF MutexOf, Holding, Ending, Registers, After
  <2>4. Stepped(t, x)
    BY <1>5, <2>1, <2>2, <2>3 DEF Stepped
  <2>5. Quiet(r, x)
    BY <1>5, <2>1, <1>m DEF Quiet, MutexOf
  <2> QED BY <2>4, <2>5, <1>1, <1>2, <1>4, QuietMove
<1> QED BY <1>2, <1>5

LEMMA By_reclaim_end ==
    ASSUME WriteInv, NEW t \in Threads, reclaim_end(t)
    PROVE  Moved(t)
<1>1. PICK r \in Registers : r = th[t]
  BY DEF WriteInv, TypeOK
<1>m. MutexOf(t, r, ilock)
  BY <1>1 DEF WriteInv, MutexInv
<1>2. /\ UNCHANGED <<connected, reqVars>>
      /\ /\ r.pc = "reclaimed" /\ UNCHANGED ilock
            /\ th' = [th EXCEPT ![t] = Idle]
  BY <1>1 DEF reclaim_end, At, inodeVars, WriteInv, TypeOK
<1>3. UNCHANGED <<isize, cache, ver>>
  BY DEF reclaim_end, At, inodeVars, dataVars, pageVars
<1>4. Typed
  BY <1>3 DEF WriteInv, TypeOK, Typed
<1>5. ASSUME r.pc = "reclaimed", UNCHANGED ilock,
             th' = [th EXCEPT ![t] = Idle]
      PROVE  Moved(t)
  <2>1. ilock' = ilock \/ ilock = t
    BY <1>5, <1>m DEF MutexOf, Holding, Ending
  <2>2. Stepped(t, Idle) /\ Quiet(r, Idle)
    BY <1>5, <2>1, IdleRegisters DEF Stepped, Quiet, MutexOf, Holding, Ending
  <2> QED BY <2>2, <1>1, <1>2, <1>4, QuietMove
<1> QED BY <1>2, <1>5

LEMMA By_fsync_wait ==
    ASSUME WriteInv, NEW t \in Threads, fsync_wait(t)
    PROVE  Moved(t)
<1>1. PICK r \in Registers : r = th[t]
  BY DEF WriteInv, TypeOK
<1>m. MutexOf(t, r, ilock)
  BY <1>1 DEF WriteInv, MutexInv
<1>2. /\ UNCHANGED <<connected, reqVars>>
      /\ \/ /\ r.pc = "written" /\ r.op = "fsync" /\ ilock' = None
            /\ th' = [th EXCEPT ![t] = Idle]
         \/ /\ r.pc = "written" /\ r.op = "fsync" /\ UNCHANGED ilock
            /\ th' = [th EXCEPT ![t] = [r EXCEPT !.pc = "nowrite"]]
  BY <1>1 DEF fsync_wait, At, fsync_return, Goto, inodeVars, WriteInv, TypeOK
<1>3. UNCHANGED <<isize, cache, ver>>
  BY DEF fsync_wait, At, fsync_return, Goto, inodeVars, dataVars, pageVars
<1>4. Typed
  BY <1>3 DEF WriteInv, TypeOK, Typed
<1>5. ASSUME r.pc = "written", r.op = "fsync", ilock' = None,
             th' = [th EXCEPT ![t] = Idle]
      PROVE  Moved(t)
  <2>1. ilock' = ilock \/ ilock = t
    BY <1>5, <1>m DEF MutexOf, Holding, Ending
  <2>2. Stepped(t, Idle) /\ Quiet(r, Idle)
    BY <1>5, <2>1, IdleRegisters DEF Stepped, Quiet, MutexOf, Holding, Ending
  <2> QED BY <2>2, <1>1, <1>2, <1>4, QuietMove
<1>6. ASSUME r.pc = "written", r.op = "fsync", UNCHANGED ilock,
             th' = [th EXCEPT ![t] = [r EXCEPT !.pc = "nowrite"]]
      PROVE  Moved(t)
  <2> DEFINE x == [r EXCEPT !.pc = "nowrite"]
  <2>1. /\ x \in Registers
        /\ x.pc = "nowrite" /\ x.op = r.op /\ x.req = r.req /\ x.after = r.after
    BY DEF Registers, PC, After, OpNames
  <2>2. th' = [th EXCEPT ![t] = x]
    BY <1>6
  <2> HIDE DEF x
  <2>3. MutexOf(t, x, ilock')
    BY <1>6, <2>1, <1>m DEF MutexOf, Holding, Ending, Registers, After
  <2>4. Stepped(t, x)
    BY <1>6, <2>1, <2>2, <2>3 DEF Stepped
  <2>5. Quiet(r, x)
    BY <1>6, <2>1 DEF Quiet, Registers, After
  <2> QED BY <2>4, <2>5, <1>1, <1>2, <1>4, QuietMove
<1> QED BY <1>2, <1>5, <1>6

LEMMA By_fsync_check ==
    ASSUME WriteInv, NEW t \in Threads, fsync_check(t)
    PROVE  Moved(t)
<1>1. PICK r \in Registers : r = th[t]
  BY DEF WriteInv, TypeOK
<1>m. MutexOf(t, r, ilock)
  BY <1>1 DEF WriteInv, MutexInv
<1>2. /\ UNCHANGED <<connected, reqVars>>
      /\ \/ /\ r.pc = "synced" /\ r.op = "fsync" /\ ilock' = None
            /\ th' = [th EXCEPT ![t] = Idle]
         \/ /\ r.pc = "synced" /\ r.op = "fsync" /\ UNCHANGED ilock
            /\ th' = [th EXCEPT ![t] = [r EXCEPT !.pc = "durable"]]
  BY <1>1 DEF fsync_check, At, fsync_return, Goto, inodeVars, WriteInv, TypeOK
<1>3. UNCHANGED <<isize, cache, ver>>
  BY DEF fsync_check, At, fsync_return, Goto, inodeVars, dataVars, pageVars
<1>4. Typed
  BY <1>3 DEF WriteInv, TypeOK, Typed
<1>5. ASSUME r.pc = "synced", r.op = "fsync", ilock' = None,
             th' = [th EXCEPT ![t] = Idle]
      PROVE  Moved(t)
  <2>1. ilock' = ilock \/ ilock = t
    BY <1>5, <1>m DEF MutexOf, Holding, Ending
  <2>2. Stepped(t, Idle) /\ Quiet(r, Idle)
    BY <1>5, <2>1, IdleRegisters DEF Stepped, Quiet, MutexOf, Holding, Ending
  <2> QED BY <2>2, <1>1, <1>2, <1>4, QuietMove
<1>6. ASSUME r.pc = "synced", r.op = "fsync", UNCHANGED ilock,
             th' = [th EXCEPT ![t] = [r EXCEPT !.pc = "durable"]]
      PROVE  Moved(t)
  <2> DEFINE x == [r EXCEPT !.pc = "durable"]
  <2>1. /\ x \in Registers
        /\ x.pc = "durable" /\ x.op = r.op /\ x.req = r.req /\ x.after = r.after
    BY DEF Registers, PC, After, OpNames
  <2>2. th' = [th EXCEPT ![t] = x]
    BY <1>6
  <2> HIDE DEF x
  <2>3. MutexOf(t, x, ilock')
    BY <1>6, <2>1, <1>m DEF MutexOf, Holding, Ending, Registers, After
  <2>4. Stepped(t, x)
    BY <1>6, <2>1, <2>2, <2>3 DEF Stepped
  <2>5. Quiet(r, x)
    BY <1>6, <2>1 DEF Quiet, Registers, After
  <2> QED BY <2>4, <2>5, <1>1, <1>2, <1>4, QuietMove
<1> QED BY <1>2, <1>5, <1>6

LEMMA By_fsync_end ==
    ASSUME WriteInv, NEW t \in Threads, fsync_end(t)
    PROVE  Moved(t)
<1>1. PICK r \in Registers : r = th[t]
  BY DEF WriteInv, TypeOK
<1>m. MutexOf(t, r, ilock)
  BY <1>1 DEF WriteInv, MutexInv
<1>2. /\ UNCHANGED <<connected, reqVars>>
      /\ /\ r.pc = "durable" /\ r.op = "fsync" /\ ilock' = None
            /\ th' = [th EXCEPT ![t] = Idle]
  BY <1>1 DEF fsync_end, At, fsync_return, inodeVars, WriteInv, TypeOK
<1>3. UNCHANGED <<isize, cache, ver>>
  BY DEF fsync_end, At, fsync_return, inodeVars, dataVars, pageVars
<1>4. Typed
  BY <1>3 DEF WriteInv, TypeOK, Typed
<1>5. ASSUME r.pc = "durable", r.op = "fsync", ilock' = None,
             th' = [th EXCEPT ![t] = Idle]
      PROVE  Moved(t)
  <2>1. ilock' = ilock \/ ilock = t
    BY <1>5, <1>m DEF MutexOf, Holding, Ending
  <2>2. Stepped(t, Idle) /\ Quiet(r, Idle)
    BY <1>5, <2>1, IdleRegisters DEF Stepped, Quiet, MutexOf, Holding, Ending
  <2> QED BY <2>2, <1>1, <1>2, <1>4, QuietMove
<1> QED BY <1>2, <1>5

LEMMA By_write_begin ==
    ASSUME WriteInv, NEW t \in Threads, NEW p \in Pages, write_begin(t, p)
    PROVE  Moved(t)
<1>1. PICK r \in Registers : r = th[t]
  BY DEF WriteInv, TypeOK
<1>m. MutexOf(t, r, ilock)
  BY <1>1 DEF WriteInv, MutexInv
<1>2. /\ UNCHANGED <<connected, reqVars>>
      /\ \/ /\ r.pc = "idle" /\ ilock = None /\ ilock' = t
            /\ th' = [th EXCEPT ![t] = [r EXCEPT !.op = "write", !.pc = "lock", !.page = p]]
         \/ /\ r.pc = "idle" /\ UNCHANGED ilock
            /\ th' = [th EXCEPT ![t] = [r EXCEPT !.op = "mkwrite", !.pc = "lock", !.page = p]]
  BY <1>1 DEF write_begin, inodeVars, WriteInv, TypeOK
<1>3. UNCHANGED <<isize, cache, ver>>
  BY DEF write_begin, inodeVars, dataVars, pageVars
<1>4. Typed
  BY <1>3 DEF WriteInv, TypeOK, Typed
<1>5. ASSUME r.pc = "idle", ilock = None, ilock' = t,
             th' = [th EXCEPT ![t] = [r EXCEPT !.op = "write", !.pc = "lock", !.page = p]]
      PROVE  Moved(t)
  <2> DEFINE x == [r EXCEPT !.op = "write", !.pc = "lock", !.page = p]
  <2>1. /\ x \in Registers
        /\ x.op = "write" /\ x.pc = "lock" /\ x.req = r.req /\ x.after = r.after
    BY DEF Registers, PC, After, OpNames
  <2>2. th' = [th EXCEPT ![t] = x]
    BY <1>5
  <2> HIDE DEF x
  <2>3. MutexOf(t, x, ilock')
    BY <1>5, <2>1, <1>m DEF MutexOf, Holding, Ending, Registers, After
  <2>4. Stepped(t, x)
    BY <1>5, <2>1, <2>2, <2>3 DEF Stepped
  <2>5. Quiet(r, x)
    BY <1>5, <2>1 DEF Quiet, Registers, After
  <2> QED BY <2>4, <2>5, <1>1, <1>2, <1>4, QuietMove
<1>6. ASSUME r.pc = "idle", UNCHANGED ilock,
             th' = [th EXCEPT ![t] = [r EXCEPT !.op = "mkwrite", !.pc = "lock", !.page = p]]
      PROVE  Moved(t)
  <2> DEFINE x == [r EXCEPT !.op = "mkwrite", !.pc = "lock", !.page = p]
  <2>1. /\ x \in Registers
        /\ x.op = "mkwrite" /\ x.pc = "lock" /\ x.req = r.req /\ x.after = r.after
    BY DEF Registers, PC, After, OpNames
  <2>2. th' = [th EXCEPT ![t] = x]
    BY <1>6
  <2> HIDE DEF x
  <2>3. MutexOf(t, x, ilock')
    BY <1>6, <2>1, <1>m DEF MutexOf, Holding, Ending, Registers, After
  <2>4. Stepped(t, x)
    BY <1>6, <2>1, <2>2, <2>3 DEF Stepped
  <2>5. Quiet(r, x)
    BY <1>6, <2>1 DEF Quiet, Registers, After
  <2> QED BY <2>4, <2>5, <1>1, <1>2, <1>4, QuietMove
<1> QED BY <1>2, <1>5, <1>6

LEMMA By_write_lock ==
    ASSUME WriteInv, NEW t \in Threads, write_lock(t)
    PROVE  Moved(t)
<1>1. PICK r \in Registers : r = th[t]
  BY DEF WriteInv, TypeOK
<1>m. MutexOf(t, r, ilock)
  BY <1>1 DEF WriteInv, MutexInv
<1>2. /\ UNCHANGED <<connected, reqVars>>
      /\ \/ /\ r.pc = "lock" /\ UNCHANGED ilock
            /\ th' = [th EXCEPT ![t] = Idle]
         \/ /\ r.pc = "lock" /\ UNCHANGED ilock
            /\ th' = [th EXCEPT ![t] = [r EXCEPT !.pc = "waitpage", !.after = "store"]]
  BY <1>1 DEF write_lock, inodeVars, WriteInv, TypeOK
<1>3. UNCHANGED <<isize, cache, ver>>
  BY DEF write_lock, inodeVars, dataVars, pageVars
<1>4. Typed
  BY <1>3 DEF WriteInv, TypeOK, Typed
<1>5. ASSUME r.pc = "lock", UNCHANGED ilock,
             th' = [th EXCEPT ![t] = Idle]
      PROVE  Moved(t)
  <2>1. ilock' = ilock \/ ilock = t
    BY <1>5, <1>m DEF MutexOf, Holding, Ending
  <2>2. Stepped(t, Idle) /\ Quiet(r, Idle)
    BY <1>5, <2>1, IdleRegisters DEF Stepped, Quiet, MutexOf, Holding, Ending
  <2> QED BY <2>2, <1>1, <1>2, <1>4, QuietMove
<1>6. ASSUME r.pc = "lock", UNCHANGED ilock,
             th' = [th EXCEPT ![t] = [r EXCEPT !.pc = "waitpage", !.after = "store"]]
      PROVE  Moved(t)
  <2> DEFINE x == [r EXCEPT !.pc = "waitpage", !.after = "store"]
  <2>1. /\ x \in Registers
        /\ x.pc = "waitpage" /\ x.after = "store" /\ x.op = r.op /\ x.req = r.req
    BY DEF Registers, PC, After, OpNames
  <2>2. th' = [th EXCEPT ![t] = x]
    BY <1>6
  <2> HIDE DEF x
  <2>3. MutexOf(t, x, ilock')
    BY <1>6, <2>1, <1>m DEF MutexOf, Holding, Ending, Registers, After
  <2>4. Stepped(t, x)
    BY <1>6, <2>1, <2>2, <2>3 DEF Stepped
  <2>5. Quiet(r, x)
    BY <1>6, <2>1 DEF Quiet, Registers, After
  <2> QED BY <2>4, <2>5, <1>1, <1>2, <1>4, QuietMove
<1> QED BY <1>2, <1>5, <1>6

LEMMA By_fuse_write_end ==
    ASSUME WriteInv, NEW t \in Threads, fuse_write_end(t)
    PROVE  Moved(t)
<1>1. PICK r \in Registers : r = th[t]
  BY DEF WriteInv, TypeOK
<1>m. MutexOf(t, r, ilock)
  BY <1>1 DEF WriteInv, MutexInv
<1>2. /\ UNCHANGED <<connected, reqVars>>
      /\ /\ r.pc = "store" /\ r.op = "write" /\ ilock' = None
            /\ th' = [th EXCEPT ![t] = Idle]
  BY <1>1 DEF fuse_write_end, At, inodeVars, WriteInv, TypeOK
<1>3. r.page \in Pages /\ isize \in Nat /\ ver \in Nat /\ cache \in [Pages -> Nat]
  BY DEF WriteInv, TypeOK, Registers
<1>3a. Max({isize, r.page + 1}) \in Nat
  <2>1. r.page + 1 \in Nat
    BY <1>3
  <2> QED BY <1>3, <2>1, TwoNumbers
<1>4. Typed
  <2>1. CASE Store(r.page) /\ isize' = Max({isize, r.page + 1})
    BY <2>1, <1>3, <1>3a DEF Store, Typed
  <2>2. CASE UNCHANGED <<isize, cache, ver>>
    BY <2>2, <1>3 DEF Typed
  <2> QED BY <1>1, <2>1, <2>2 DEF fuse_write_end
<1>5. ASSUME r.pc = "store", r.op = "write", ilock' = None,
             th' = [th EXCEPT ![t] = Idle]
      PROVE  Moved(t)
  <2>1. ilock' = ilock \/ ilock = t
    BY <1>5, <1>m DEF MutexOf, Holding, Ending
  <2>2. Stepped(t, Idle) /\ Quiet(r, Idle)
    BY <1>5, <2>1, IdleRegisters DEF Stepped, Quiet, MutexOf, Holding, Ending
  <2> QED BY <2>2, <1>1, <1>2, <1>4, QuietMove
<1> QED BY <1>2, <1>5

LEMMA By_mkwrite_end ==
    ASSUME WriteInv, NEW t \in Threads, mkwrite_end(t)
    PROVE  Moved(t)
<1>1. PICK r \in Registers : r = th[t]
  BY DEF WriteInv, TypeOK
<1>m. MutexOf(t, r, ilock)
  BY <1>1 DEF WriteInv, MutexInv
<1>2. /\ UNCHANGED <<connected, reqVars>>
      /\ /\ r.pc = "store" /\ UNCHANGED ilock
            /\ th' = [th EXCEPT ![t] = Idle]
  BY <1>1 DEF mkwrite_end, At, inodeVars, WriteInv, TypeOK
<1>3. r.page \in Pages /\ isize \in Nat /\ ver \in Nat /\ cache \in [Pages -> Nat]
  BY DEF WriteInv, TypeOK, Registers
<1>4. Typed
  BY <1>1, <1>3 DEF mkwrite_end, Store, inodeVars, Typed
<1>5. ASSUME r.pc = "store", UNCHANGED ilock,
             th' = [th EXCEPT ![t] = Idle]
      PROVE  Moved(t)
  <2>1. ilock' = ilock \/ ilock = t
    BY <1>5, <1>m DEF MutexOf, Holding, Ending
  <2>2. Stepped(t, Idle) /\ Quiet(r, Idle)
    BY <1>5, <2>1, IdleRegisters DEF Stepped, Quiet, MutexOf, Holding, Ending
  <2> QED BY <2>2, <1>1, <1>2, <1>4, QuietMove
<1> QED BY <1>2, <1>5

LEMMA By_setattr_begin ==
    ASSUME WriteInv, NEW t \in Threads, NEW s \in Sizes, setattr_begin(t, s)
    PROVE  Moved(t)
<1>1. PICK r \in Registers : r = th[t]
  BY DEF WriteInv, TypeOK
<1>m. MutexOf(t, r, ilock)
  BY <1>1 DEF WriteInv, MutexInv
<1>2. /\ UNCHANGED <<connected, reqVars>>
      /\ /\ r.pc = "idle" /\ ilock = None /\ ilock' = t
            /\ th' = [th EXCEPT ![t] = [r EXCEPT !.op = "truncate", !.pc = "nowrite", !.size = s]]
  BY <1>1 DEF setattr_begin, inodeVars, WriteInv, TypeOK
<1>3. UNCHANGED <<isize, cache, ver>>
  BY DEF setattr_begin, inodeVars, dataVars, pageVars
<1>4. Typed
  BY <1>3 DEF WriteInv, TypeOK, Typed
<1>5. ASSUME r.pc = "idle", ilock = None, ilock' = t,
             th' = [th EXCEPT ![t] = [r EXCEPT !.op = "truncate", !.pc = "nowrite", !.size = s]]
      PROVE  Moved(t)
  <2> DEFINE x == [r EXCEPT !.op = "truncate", !.pc = "nowrite", !.size = s]
  <2>1. /\ x \in Registers
        /\ x.op = "truncate" /\ x.pc = "nowrite" /\ x.req = r.req /\ x.after = r.after
    <3>1. s \in Nat
      OBVIOUS
    <3> QED BY <3>1 DEF Registers, PC, After, OpNames
  <2>2. th' = [th EXCEPT ![t] = x]
    BY <1>5
  <2> HIDE DEF x
  <2>3. MutexOf(t, x, ilock')
    BY <1>5, <2>1, <1>m DEF MutexOf, Holding, Ending, Registers, After
  <2>4. Stepped(t, x)
    BY <1>5, <2>1, <2>2, <2>3 DEF Stepped
  <2>5. Quiet(r, x)
    BY <1>5, <2>1 DEF Quiet, Registers, After
  <2> QED BY <2>4, <2>5, <1>1, <1>2, <1>4, QuietMove
<1> QED BY <1>2, <1>5

LEMMA By_truncate_pagecache ==
    ASSUME WriteInv, NEW t \in Threads, truncate_pagecache(t)
    PROVE  Moved(t)
<1>1. PICK r \in Registers : r = th[t]
  BY DEF WriteInv, TypeOK
<1>m. MutexOf(t, r, ilock)
  BY <1>1 DEF WriteInv, MutexInv
<1>2. /\ UNCHANGED <<connected, reqVars>>
      /\ \/ /\ r.pc = "truncate" /\ UNCHANGED ilock
            /\ th' = [th EXCEPT ![t] = [r EXCEPT !.pc = "invalidate", !.cur = 0]]
         \/ \E p \in Pages : /\ r.pc = "truncate" /\ UNCHANGED ilock
                             /\ th' = [th EXCEPT ![t] = [r EXCEPT !.cur = p + 1]]
  BY <1>1 DEF truncate_pagecache, inodeVars, WriteInv, TypeOK, Registers
<1>3. isize \in Nat /\ ver \in Nat /\ cache \in [Pages -> Nat]
  BY DEF WriteInv, TypeOK
<1>4. Typed
  <2>1. UNCHANGED <<isize, ver>>
    BY DEF truncate_pagecache, pageVars, dataVars, inodeVars
  <2>2. UNCHANGED cache \/ \E p \in Pages : cache' = [cache EXCEPT ![p] = 0]
    BY DEF truncate_pagecache, pageVars, dataVars
  <2> QED BY <1>3, <2>1, <2>2 DEF Typed
<1>5. ASSUME r.pc = "truncate", UNCHANGED ilock,
             th' = [th EXCEPT ![t] = [r EXCEPT !.pc = "invalidate", !.cur = 0]]
      PROVE  Moved(t)
  <2> DEFINE x == [r EXCEPT !.pc = "invalidate", !.cur = 0]
  <2>1. /\ x \in Registers
        /\ x.pc = "invalidate" /\ x.op = r.op /\ x.req = r.req /\ x.after = r.after
    BY DEF Registers, PC, After, OpNames
  <2>2. th' = [th EXCEPT ![t] = x]
    BY <1>5
  <2> HIDE DEF x
  <2>3. MutexOf(t, x, ilock')
    BY <1>5, <2>1, <1>m DEF MutexOf, Holding, Ending, Registers, After
  <2>4. Stepped(t, x)
    BY <1>5, <2>1, <2>2, <2>3 DEF Stepped
  <2>5. Quiet(r, x)
    BY <1>5, <2>1 DEF Quiet, Registers, After
  <2> QED BY <2>4, <2>5, <1>1, <1>2, <1>4, QuietMove
<1>6. ASSUME NEW p \in Pages, r.pc = "truncate", UNCHANGED ilock,
             th' = [th EXCEPT ![t] = [r EXCEPT !.cur = p + 1]]
      PROVE  Moved(t)
  <2> DEFINE x == [r EXCEPT !.cur = p + 1]
  <2>1. /\ x \in Registers
        /\ x.op = r.op /\ x.pc = r.pc /\ x.req = r.req /\ x.after = r.after
    BY DEF Registers, PC, After, OpNames
  <2>2. th' = [th EXCEPT ![t] = x]
    BY <1>6
  <2> HIDE DEF x
  <2>3. MutexOf(t, x, ilock')
    BY <1>6, <2>1, <1>m DEF MutexOf, Holding, Ending, Registers, After
  <2>4. Stepped(t, x)
    BY <1>6, <2>1, <2>2, <2>3 DEF Stepped
  <2>5. Quiet(r, x)
    BY <1>6, <2>1 DEF Quiet, Registers, After
  <2> QED BY <2>4, <2>5, <1>1, <1>2, <1>4, QuietMove
<1> QED BY <1>2, <1>5, <1>6

LEMMA By_invalidate_inode_pages2 ==
    ASSUME WriteInv, NEW t \in Threads, invalidate_inode_pages2(t)
    PROVE  Moved(t)
<1>1. PICK r \in Registers : r = th[t]
  BY DEF WriteInv, TypeOK
<1>m. MutexOf(t, r, ilock)
  BY <1>1 DEF WriteInv, MutexInv
<1>2. /\ UNCHANGED <<connected, reqVars>>
      /\ \/ /\ r.pc = "invalidate" /\ UNCHANGED ilock
            /\ th' = [th EXCEPT ![t] = [r EXCEPT !.pc = "unlock"]]
         \/ \E p \in Pages : /\ r.pc = "invalidate" /\ UNCHANGED ilock
                             /\ th' = [th EXCEPT ![t] = [r EXCEPT !.pc = "locked", !.page = p, !.pages = {p}, !.after = "launder"]]
         \/ \E p \in Pages : /\ r.pc = "invalidate" /\ UNCHANGED ilock
                             /\ th' = [th EXCEPT ![t] = [r EXCEPT !.cur = p + 1]]
  <2>1. r.pc = "invalidate" /\ UNCHANGED <<connected, reqVars, ilock>>
    BY <1>1 DEF invalidate_inode_pages2, inodeVars
  <2>2. \/ th' = [th EXCEPT ![t].pc = "unlock"]
        \/ /\ r.cur \in Pages
           /\ \/ th' = [th EXCEPT ![t].pc = "locked", ![t].page = r.cur,
                                  ![t].pages = {r.cur}, ![t].after = "launder"]
              \/ th' = [th EXCEPT ![t].cur = r.cur + 1]
    BY <1>1 DEF invalidate_inode_pages2, Goto
  <2>3. CASE th' = [th EXCEPT ![t].pc = "unlock"]
    BY <2>1, <2>3, <1>1 DEF WriteInv, TypeOK
  <2>4. CASE r.cur \in Pages /\ th' = [th EXCEPT ![t].cur = r.cur + 1]
    <3>1. th' = [th EXCEPT ![t] = [r EXCEPT !.cur = r.cur + 1]]
      BY <2>4, <1>1 DEF WriteInv, TypeOK
    <3> QED BY <2>1, <2>4, <3>1
  <2>5. CASE /\ r.cur \in Pages
             /\ th' = [th EXCEPT ![t].pc = "locked", ![t].page = r.cur,
                                 ![t].pages = {r.cur}, ![t].after = "launder"]
    <3>1. th' = [th EXCEPT ![t] = [r EXCEPT !.pc = "locked", !.page = r.cur,
                                            !.pages = {r.cur}, !.after = "launder"]]
      BY <2>5, <1>1 DEF WriteInv, TypeOK
    <3> QED BY <2>1, <2>5, <3>1
  <2> QED BY <2>2, <2>3, <2>4, <2>5
<1>3. UNCHANGED <<isize, cache, ver>>
  BY DEF invalidate_inode_pages2, Goto, inodeVars, dataVars, pageVars
<1>4. Typed
  BY <1>3 DEF WriteInv, TypeOK, Typed
<1>5. ASSUME r.pc = "invalidate", UNCHANGED ilock,
             th' = [th EXCEPT ![t] = [r EXCEPT !.pc = "unlock"]]
      PROVE  Moved(t)
  <2> DEFINE x == [r EXCEPT !.pc = "unlock"]
  <2>1. /\ x \in Registers
        /\ x.pc = "unlock" /\ x.op = r.op /\ x.req = r.req /\ x.after = r.after
    BY DEF Registers, PC, After, OpNames
  <2>2. th' = [th EXCEPT ![t] = x]
    BY <1>5
  <2> HIDE DEF x
  <2>3. MutexOf(t, x, ilock')
    BY <1>5, <2>1, <1>m DEF MutexOf, Holding, Ending, Registers, After
  <2>4. Stepped(t, x)
    BY <1>5, <2>1, <2>2, <2>3 DEF Stepped
  <2>5. Quiet(r, x)
    BY <1>5, <2>1 DEF Quiet, Registers, After
  <2> QED BY <2>4, <2>5, <1>1, <1>2, <1>4, QuietMove
<1>6. ASSUME NEW p \in Pages, r.pc = "invalidate", UNCHANGED ilock,
             th' = [th EXCEPT ![t] = [r EXCEPT !.pc = "locked", !.page = p, !.pages = {p}, !.after = "launder"]]
      PROVE  Moved(t)
  <2> DEFINE x == [r EXCEPT !.pc = "locked", !.page = p, !.pages = {p}, !.after = "launder"]
  <2>1. /\ x \in Registers
        /\ x.pc = "locked" /\ x.after = "launder" /\ x.op = r.op /\ x.req = r.req
    BY ZenonT(30) DEF Registers, PC, After, OpNames
  <2>2. th' = [th EXCEPT ![t] = x]
    BY <1>6
  <2> HIDE DEF x
  <2>3. MutexOf(t, x, ilock')
    BY <1>6, <2>1, <1>m DEF MutexOf, Holding, Ending, Registers, After
  <2>4. Stepped(t, x)
    BY <1>6, <2>1, <2>2, <2>3 DEF Stepped
  <2>5. Quiet(r, x)
    BY <1>6, <2>1 DEF Quiet, Registers, After
  <2> QED BY <2>4, <2>5, <1>1, <1>2, <1>4, QuietMove
<1>7. ASSUME NEW p \in Pages, r.pc = "invalidate", UNCHANGED ilock,
             th' = [th EXCEPT ![t] = [r EXCEPT !.cur = p + 1]]
      PROVE  Moved(t)
  <2> DEFINE x == [r EXCEPT !.cur = p + 1]
  <2>1. /\ x \in Registers
        /\ x.op = r.op /\ x.pc = r.pc /\ x.req = r.req /\ x.after = r.after
    BY DEF Registers, PC, After, OpNames
  <2>2. th' = [th EXCEPT ![t] = x]
    BY <1>7
  <2> HIDE DEF x
  <2>3. MutexOf(t, x, ilock')
    BY <1>7, <2>1, <1>m DEF MutexOf, Holding, Ending, Registers, After
  <2>4. Stepped(t, x)
    BY <1>7, <2>1, <2>2, <2>3 DEF Stepped
  <2>5. Quiet(r, x)
    BY <1>7, <2>1 DEF Quiet, Registers, After
  <2> QED BY <2>4, <2>5, <1>1, <1>2, <1>4, QuietMove
<1> QED BY <1>2, <1>5, <1>6, <1>7

LEMMA By_fuse_launder_page ==
    ASSUME WriteInv, NEW t \in Threads, fuse_launder_page(t)
    PROVE  Moved(t)
<1>1. PICK r \in Registers : r = th[t]
  BY DEF WriteInv, TypeOK
<1>m. MutexOf(t, r, ilock)
  BY <1>1 DEF WriteInv, MutexInv
<1>2. /\ UNCHANGED <<connected, reqVars>>
      /\ \/ /\ r.pc = "launder" /\ UNCHANGED ilock
            /\ th' = [th EXCEPT ![t] = [r EXCEPT !.pc = "invalidate", !.cur = r.page + 1, !.page = 0, !.err = FALSE]]
         \/ /\ r.pc = "launder" /\ UNCHANGED ilock
            /\ th' = [th EXCEPT ![t] = [r EXCEPT !.pc = "waitpage", !.after = "laundered"]]
  BY <1>1 DEF fuse_launder_page, inodeVars, WriteInv, TypeOK
<1>3. UNCHANGED <<isize, cache, ver>>
  BY DEF fuse_launder_page, inodeVars, dataVars, pageVars
<1>4. Typed
  BY <1>3 DEF WriteInv, TypeOK, Typed
<1>5. ASSUME r.pc = "launder", UNCHANGED ilock,
             th' = [th EXCEPT ![t] = [r EXCEPT !.pc = "invalidate", !.cur = r.page + 1, !.page = 0, !.err = FALSE]]
      PROVE  Moved(t)
  <2> DEFINE x == [r EXCEPT !.pc = "invalidate", !.cur = r.page + 1, !.page = 0, !.err = FALSE]
  <2>1. /\ x \in Registers
        /\ x.pc = "invalidate" /\ x.op = r.op /\ x.req = r.req /\ x.after = r.after
    <3>1. r.page \in Pages /\ r.page + 1 \in Nat
      BY DEF Registers
    <3> QED BY ZenonT(30), <3>1, ZeroPage DEF Registers, PC, After, OpNames
  <2>2. th' = [th EXCEPT ![t] = x]
    BY <1>5
  <2> HIDE DEF x
  <2>3. MutexOf(t, x, ilock')
    BY <1>5, <2>1, <1>m DEF MutexOf, Holding, Ending, Registers, After
  <2>4. Stepped(t, x)
    BY <1>5, <2>1, <2>2, <2>3 DEF Stepped
  <2>5. Quiet(r, x)
    BY <1>5, <2>1 DEF Quiet, Registers, After
  <2> QED BY <2>4, <2>5, <1>1, <1>2, <1>4, QuietMove
<1>6. ASSUME r.pc = "launder", UNCHANGED ilock,
             th' = [th EXCEPT ![t] = [r EXCEPT !.pc = "waitpage", !.after = "laundered"]]
      PROVE  Moved(t)
  <2> DEFINE x == [r EXCEPT !.pc = "waitpage", !.after = "laundered"]
  <2>1. /\ x \in Registers
        /\ x.pc = "waitpage" /\ x.after = "laundered" /\ x.op = r.op /\ x.req = r.req
    <3>1. r.page \in Pages /\ r.page + 1 \in Nat
      BY DEF Registers
    <3> QED BY <3>1, ZeroPage DEF Registers, PC, After, OpNames
  <2>2. th' = [th EXCEPT ![t] = x]
    BY <1>6
  <2> HIDE DEF x
  <2>3. MutexOf(t, x, ilock')
    BY <1>6, <2>1, <1>m DEF MutexOf, Holding, Ending, Registers, After
  <2>4. Stepped(t, x)
    BY <1>6, <2>1, <2>2, <2>3 DEF Stepped
  <2>5. Quiet(r, x)
    BY <1>6, <2>1 DEF Quiet, Registers, After
  <2> QED BY <2>4, <2>5, <1>1, <1>2, <1>4, QuietMove
<1> QED BY <1>2, <1>5, <1>6

LEMMA By_laundered ==
    ASSUME WriteInv, NEW t \in Threads, laundered(t)
    PROVE  Moved(t)
<1>1. PICK r \in Registers : r = th[t]
  BY DEF WriteInv, TypeOK
<1>m. MutexOf(t, r, ilock)
  BY <1>1 DEF WriteInv, MutexInv
<1>2. /\ UNCHANGED <<connected, reqVars>>
      /\ /\ r.pc = "laundered" /\ UNCHANGED ilock
            /\ th' = [th EXCEPT ![t] = [r EXCEPT !.pc = "invalidate", !.cur = r.page + 1, !.page = 0]]
  BY <1>1 DEF laundered, inodeVars, WriteInv, TypeOK
<1>3. UNCHANGED <<isize, cache, ver>>
  BY DEF laundered, inodeVars, dataVars, pageVars
<1>4. Typed
  BY <1>3 DEF WriteInv, TypeOK, Typed
<1>5. ASSUME r.pc = "laundered", UNCHANGED ilock,
             th' = [th EXCEPT ![t] = [r EXCEPT !.pc = "invalidate", !.cur = r.page + 1, !.page = 0]]
      PROVE  Moved(t)
  <2> DEFINE x == [r EXCEPT !.pc = "invalidate", !.cur = r.page + 1, !.page = 0]
  <2>1. /\ x \in Registers
        /\ x.pc = "invalidate" /\ x.op = r.op /\ x.req = r.req /\ x.after = r.after
    <3>1. r.page \in Pages /\ r.page + 1 \in Nat
      BY DEF Registers
    <3> QED BY <3>1, ZeroPage DEF Registers, PC, After, OpNames
  <2>2. th' = [th EXCEPT ![t] = x]
    BY <1>5
  <2> HIDE DEF x
  <2>3. MutexOf(t, x, ilock')
    BY <1>5, <2>1, <1>m DEF MutexOf, Holding, Ending, Registers, After
  <2>4. Stepped(t, x)
    BY <1>5, <2>1, <2>2, <2>3 DEF Stepped
  <2>5. Quiet(r, x)
    BY <1>5, <2>1 DEF Quiet, Registers, After
  <2> QED BY <2>4, <2>5, <1>1, <1>2, <1>4, QuietMove
<1> QED BY <1>2, <1>5

LEMMA By_setattr_end ==
    ASSUME WriteInv, NEW t \in Threads, setattr_end(t)
    PROVE  Moved(t)
<1>1. PICK r \in Registers : r = th[t]
  BY DEF WriteInv, TypeOK
<1>m. MutexOf(t, r, ilock)
  BY <1>1 DEF WriteInv, MutexInv
<1>2. /\ UNCHANGED <<connected, reqVars>>
      /\ /\ r.pc = "unlock" /\ ilock' = None
            /\ th' = [th EXCEPT ![t] = Idle]
  BY <1>1 DEF setattr_end, inodeVars, WriteInv, TypeOK
<1>3. UNCHANGED <<isize, cache, ver>>
  BY DEF setattr_end, inodeVars, dataVars, pageVars
<1>4. Typed
  BY <1>3 DEF WriteInv, TypeOK, Typed
<1>5. ASSUME r.pc = "unlock", ilock' = None,
             th' = [th EXCEPT ![t] = Idle]
      PROVE  Moved(t)
  <2>1. ilock' = ilock \/ ilock = t
    BY <1>5, <1>m DEF MutexOf, Holding, Ending
  <2>2. Stepped(t, Idle) /\ Quiet(r, Idle)
    BY <1>5, <2>1, IdleRegisters DEF Stepped, Quiet, MutexOf, Holding, Ending
  <2> QED BY <2>2, <1>1, <1>2, <1>4, QuietMove
<1> QED BY <1>2, <1>5

(***************************************************************************)
(* What every proof of a step uses                                         *)
(***************************************************************************)

LEMMA Counts ==
    ASSUME WriteInv
    PROVE  /\ IsFiniteSet(Sent) /\ Cardinality(Sent) \in Nat
           /\ FUSE_NOWRITE \in Int /\ Cardinality(Sent) + FUSE_NOWRITE < 0
           /\ (Cardinality(Sent) = 0 <=> Sent = {})
<1>1. Sent \in SUBSET Reqs
  BY DEF Sent
<1>2. IsFiniteSet(Sent) /\ Cardinality(Sent) <= Cardinality(Reqs)
  BY <1>1, FS_Subset
<1>3. Cardinality(Sent) \in Nat /\ Cardinality(Reqs) \in Nat
  BY <1>2, FS_CardinalityType
<1>4. FUSE_NOWRITE \in Int
  BY SMT DEF FUSE_NOWRITE
<1>5. Cardinality(Sent) = 0 <=> Sent = {}
  BY <1>2, FS_EmptySet
<1> QED BY <1>2, <1>3, <1>4, <1>5

(* The writes that were sent are exact, and so is the wait of              *)
(* fuse_set_nowrite: no other thread keeps writes off when a thread is     *)
(* about to, because both hold i_mutex.                                    *)
LEMMA ExactAgain ==
    ASSUME WriteInv, th' \in [Threads -> Registers], MutexInv',
           writectr' = Cardinality(Sent') + (IF Biased' THEN FUSE_NOWRITE ELSE 0),
           Cardinality(Sent') \in Nat,
           \A t \in Threads : th'[t].pc \in {"section", "replied"}
                              => writectr' = FUSE_NOWRITE
    PROVE  WritectrExact'
<1>1. ASSUME NEW t \in Threads, th'[t].pc = "nowrite"
      PROVE  writectr' >= 0
  <2>1. MutexOf(t, th'[t], ilock') /\ th'[t].op \in Holding
    BY <1>1 DEF MutexInv, MutexOf, Holding
  <2>2. ilock' = t
    BY <2>1 DEF MutexOf
  <2>3. ASSUME NEW u \in Threads,
               th'[u].pc \in {"waitwrites", "section", "replied"}
        PROVE  FALSE
    <3>1. MutexOf(u, th'[u], ilock')
      BY DEF MutexInv
    <3>2. ilock' = u
      BY <2>3, <3>1 DEF MutexOf, Holding, Ending
    <3> QED BY <2>2, <2>3, <3>2, <1>1
  <2>4. ~Biased'
    BY <2>3 DEF Biased, InSection
  <2> QED BY <2>4
<1> QED BY <1>1 DEF WritectrExact, InSection

(* Threads that keep writes off are alone.                                 *)
LEMMA AloneBiased ==
    ASSUME WriteInv, NEW t \in Threads,
           th[t].pc \in {"nowrite", "waitwrites", "section", "replied"}
    PROVE  \A u \in Threads \ {t} :
              th[u].pc \notin {"nowrite", "waitwrites", "section", "replied"}
<1>1. \A u \in Threads : MutexOf(u, th[u], ilock)
  BY DEF WriteInv, MutexInv
<1>2. \A u \in Threads :
         th[u].pc \in {"nowrite", "waitwrites", "section", "replied"} => ilock = u
  BY <1>1 DEF MutexOf, Holding, Ending
<1> QED BY <1>2

(* The requests stay where they are.                                       *)
LEMMA RequestsStay ==
    ASSUME WriteInv, UNCHANGED <<req, queued, pend>>, connected' => connected
    PROVE  FreeInv' /\ QueueInv' /\ ChainInv' /\ PendInv'
<1>1. FreeInv'
  BY DEF WriteInv, FreeInv, Num
<1>2. QueueInv'
  BY DEF WriteInv, QueueInv
<1>3. ChainInv'
  BY DEF WriteInv, ChainInv
<1>4. PendInv'
  BY DEF WriteInv, PendInv
<1> QED BY <1>1, <1>2, <1>3, <1>4

(* A step of a thread that leaves the requests alone but may count, sleep  *)
(* or take fc->lock.                                                       *)
LEMMA StepStays ==
    ASSUME WriteInv, NEW t \in Threads, NEW s, Stepped(t, s),
           s.req \in {th[t].req, None}, UNCHANGED req
    PROVE  OwnInv'
<1>1. \A u \in Threads : th'[u].req \in {th[u].req, None}
  BY SteppedThread
<1> QED BY <1>1 DEF WriteInv, OwnInv

LEMMA FillStays ==
    ASSUME WriteInv, NEW t \in Threads, NEW s, Stepped(t, s), UNCHANGED req,
           s.pc \notin {"inflight", "inplace", "count"},
           s.pc = "send" => s.req # None,
           s.pc = "alloc" /\ s.isw => s.req = None,
           s.pc = "flush" /\ s.after = "alloc" => s.req = None
    PROVE  FillInv'
<1>1. th'[t] = s /\ \A u \in Threads \ {t} : th'[u] = th[u]
  BY SteppedThread
<1>2. ASSUME NEW u \in Threads PROVE FillOf(th[u])
  BY DEF WriteInv, FillInv
<1>3. ASSUME NEW u \in Threads \ {t} PROVE FillOf(th[u])'
  <2>1. th'[u] = th[u]
    BY <1>1
  <2> QED BY <1>2, <2>1 DEF FillOf, Num
<1>4. FillOf(th[t])'
  BY <1>1 DEF FillOf
<1> QED BY <1>3, <1>4 DEF FillInv

LEMMA MovedKeeps ==
    ASSUME WriteInv, NEW t \in Threads, Moved(t)
    PROVE  WriteInv'
<1>1. PICK s : Stepped(t, s) /\ Quiet(th[t], s)
  BY DEF Moved
<1>2. /\ th' \in [Threads -> Registers] /\ MutexInv'
      /\ th'[t] = s /\ \A u \in Threads \ {t} : th'[u] = th[u]
  BY <1>1, SteppedThread
<1>3. /\ TypeOK' /\ UNCHANGED <<connected, req, queued, writepages, pend>>
      /\ UNCHANGED <<writectr, asleep, fclock>>
  BY DEF Moved, reqVars, listVars
<1>4. LockInv'
  BY <1>1, <1>2, <1>3 DEF WriteInv, LockInv, Quiet
<1>5. FillInv'
  BY <1>1, <1>2, <1>3, FillStays DEF Quiet
<1>6. OwnInv'
  BY <1>1, <1>3, StepStays DEF Quiet
<1>7. FreeInv' /\ QueueInv' /\ ChainInv' /\ PendInv'
  BY <1>3, RequestsStay
<1>8. SleepInv'
  <2>1. t \notin asleep
    BY <1>1 DEF WriteInv, SleepInv, Quiet
  <2>2. ASSUME NEW u \in asleep
        PROVE  u \in Threads \ {t} /\ th'[u] = th[u]
    BY <2>1, <1>2 DEF WriteInv, TypeOK
  <2>3. \A p : fuse_page_is_writeback(p)' <=> fuse_page_is_writeback(p)
    BY <1>3 DEF fuse_page_is_writeback, Span, Num
  <2> QED BY <2>2, <2>3, <1>3 DEF WriteInv, SleepInv, fuse_page_is_writeback, Span, Num
<1>9. WritectrExact'
  <2>1. Sent' = Sent
    BY <1>3 DEF Sent
  <2>2. Biased' <=> Biased
    BY <1>1, <1>2 DEF Biased, InSection, Quiet
  <2>3. \A u \in Threads : th'[u].pc \in {"section", "replied"}
                           => writectr' = FUSE_NOWRITE
    BY <1>1, <1>2, <1>3 DEF WriteInv, WritectrExact, InSection, Quiet
  <2>4. writectr' = Cardinality(Sent') + (IF Biased' THEN FUSE_NOWRITE ELSE 0)
    BY <2>1, <2>2, <1>3 DEF WriteInv, WritectrExact
  <2> QED BY <2>1, <2>3, <2>4, <1>2, Counts, ExactAgain
<1> QED BY <1>2, <1>3, <1>4, <1>5, <1>6, <1>7, <1>8, <1>9 DEF WriteInv

(***************************************************************************)
(* Steps that keep writes off, sleep, or change no register                *)
(***************************************************************************)

(* One step of a thread that leaves the requests where they are.           *)
Kept(t, s) ==
    /\ Stepped(t, s) /\ s.req = th[t].req
    /\ UNCHANGED <<connected, req, queued, writepages, pend>>
    /\ isize' \in Nat /\ UNCHANGED <<ver, cache>>
    /\ fclock' = fclock \/ (FcLock(t) /\ fclock' = t)
    /\ th[t].pc \notin {"inplace"}
    /\ s.pc \notin {"inflight", "inplace", "count", "send", "alloc"}
    /\ s.pc = "flush" => s.after # "alloc"

LEMMA KeptRequests ==
    ASSUME WriteInv, NEW t \in Threads, NEW s, Kept(t, s)
    PROVE  /\ th' \in [Threads -> Registers] /\ MutexInv'
           /\ th'[t] = s /\ \A u \in Threads \ {t} : th'[u] = th[u]
           /\ LockInv' /\ FillInv' /\ OwnInv'
           /\ FreeInv' /\ QueueInv' /\ ChainInv' /\ PendInv'
           /\ \A p : fuse_page_is_writeback(p)' <=> fuse_page_is_writeback(p)
           /\ Sent' = Sent
<1>1. /\ th' \in [Threads -> Registers] /\ MutexInv'
      /\ th'[t] = s /\ \A u \in Threads \ {t} : th'[u] = th[u]
  BY SteppedThread DEF Kept
<1>2. LockInv'
  <2>1. UNCHANGED req
    BY DEF Kept
  <2>2. fclock \in {None, t} => /\ \A q \in Reqs : req[q].st # "finishing"
                                /\ \A u \in Threads \ {t} : th[u].pc # "inplace"
    BY DEF WriteInv, LockInv
  <2> QED BY <1>1, <2>1, <2>2 DEF WriteInv, LockInv, Kept, FcLock
<1>3. FillInv'
  BY FillStays DEF Kept
<1>4. OwnInv'
  BY StepStays DEF Kept
<1>5. FreeInv' /\ QueueInv' /\ ChainInv' /\ PendInv'
  BY RequestsStay DEF Kept
<1>6. \A p : fuse_page_is_writeback(p)' <=> fuse_page_is_writeback(p)
  BY DEF Kept, fuse_page_is_writeback, Span, Num
<1>7. Sent' = Sent
  BY DEF Kept, Sent
<1> QED BY <1>1, <1>2, <1>3, <1>4, <1>5, <1>6, <1>7

LEMMA KeptType ==
    ASSUME WriteInv, NEW t \in Threads, NEW s, Kept(t, s),
           writectr' \in Int, asleep' \subseteq Threads
    PROVE  TypeOK'
<1>1. th' \in [Threads -> Registers]
  BY KeptRequests
<1> QED BY <1>1 DEF WriteInv, TypeOK, Kept

(* The sleepers are not disturbed, unless the count reaches the bias.      *)
LEMMA KeptSleep ==
    ASSUME WriteInv, NEW t \in Threads, NEW s, Kept(t, s), t \notin asleep,
           asleep' \subseteq asleep, \/ writectr' # FUSE_NOWRITE
                                     \/ UNCHANGED writectr
    PROVE  SleepInv'
<1>1. \A u \in asleep' : u \in Threads \ {t} /\ th'[u] = th[u]
  BY KeptRequests DEF WriteInv, TypeOK
<1>2. UNCHANGED req /\ \A p : fuse_page_is_writeback(p)' <=> fuse_page_is_writeback(p)
  BY KeptRequests DEF Kept
<1>3. \A u \in asleep :
        \/ th[u].pc = "waitpage" /\ fuse_page_is_writeback(th[u].page)
        \/ th[u].pc = "waitwrites"
           /\ (writectr # FUSE_NOWRITE
               \/ \E q \in Reqs : req[q].st = "finishing")
  BY DEF WriteInv, SleepInv
<1>4. ASSUME NEW u \in asleep'
      PROVE  \/ th'[u].pc = "waitpage" /\ fuse_page_is_writeback(th[u].page)'
             \/ th'[u].pc = "waitwrites"
                /\ (writectr' # FUSE_NOWRITE
                    \/ \E q \in Reqs : req'[q].st = "finishing")
  <2>1. u \in asleep /\ th'[u] = th[u]
    BY <1>1
  <2>2. CASE th[u].pc = "waitpage" /\ fuse_page_is_writeback(th[u].page)
    BY <1>2, <2>1, <2>2 DEF fuse_page_is_writeback, Span, Num
  <2>3. CASE /\ th[u].pc = "waitwrites"
             /\ (writectr # FUSE_NOWRITE
                 \/ \E q \in Reqs : req[q].st = "finishing")
    BY <1>2, <2>1, <2>3
  <2> QED BY <1>3, <2>1, <2>2, <2>3
<1> QED BY <1>4 DEF SleepInv, fuse_page_is_writeback, Span, Num

(* SETATTR has truncated the daemon's file.                                *)
LEMMA By_setattr_replied ==
    ASSUME WriteInv, NEW t \in Threads, th[t].pc = "section",
           th[t].op = "truncate", Goto(t, "replied"), UNCHANGED reqVars,
           UNCHANGED <<inodeVars, pageVars>>
    PROVE  WriteInv'
<1> DEFINE s == [th[t] EXCEPT !.pc = "replied"]
<1>0. th[t] \in Registers /\ MutexOf(t, th[t], ilock) /\ t \notin asleep
  BY DEF WriteInv, TypeOK, MutexInv, SleepInv
<1>1. /\ s \in Registers /\ s.pc = "replied"
      /\ s.op = th[t].op /\ s.req = th[t].req /\ s.after = th[t].after
  BY <1>0 DEF Registers, PC
<1>2. th' = [th EXCEPT ![t] = s]
  BY <1>0 DEF Goto, WriteInv, TypeOK
<1> HIDE DEF s
<1>3. UNCHANGED <<connected, ilock, isize, cache, ver, req, queued, writepages, pend,
                  writectr, asleep, fclock>>
  BY DEF inodeVars, pageVars, dataVars, reqVars, listVars
<1>4. MutexOf(t, s, ilock')
  BY <1>0, <1>1, <1>3 DEF MutexOf, Holding, Ending
<1>5. Stepped(t, s)
  BY <1>1, <1>2, <1>3, <1>4 DEF Stepped
<1>6. Kept(t, s)
  BY <1>1, <1>3, <1>5 DEF Kept, WriteInv, TypeOK
<1>7. TypeOK'
  BY <1>3, <1>6, KeptType DEF WriteInv, TypeOK
<1>8. SleepInv'
  BY <1>0, <1>3, <1>6, KeptSleep
<1>9. WritectrExact'
  <2>1. /\ th' \in [Threads -> Registers] /\ MutexInv' /\ Sent' = Sent
        /\ th'[t] = s /\ \A u \in Threads \ {t} : th'[u] = th[u]
    BY <1>6, KeptRequests
  <2>2. Biased /\ Biased'
    BY <1>1, <2>1 DEF Biased, InSection
  <2>3. writectr = FUSE_NOWRITE
    BY DEF WriteInv, WritectrExact, InSection
  <2>4. writectr' = Cardinality(Sent') + (IF Biased' THEN FUSE_NOWRITE ELSE 0)
    BY <2>1, <2>2, <1>3 DEF WriteInv, WritectrExact
  <2> QED BY <2>1, <2>3, <2>4, <1>3, Counts, ExactAgain
<1> QED BY <1>6, <1>7, <1>8, <1>9, KeptRequests DEF WriteInv

(* fuse_release_nowrite ends the section: nothing was sent in it, so the   *)
(* count is zero again.                                                    *)
LEMMA By_fuse_release_nowrite ==
    ASSUME WriteInv, NEW t \in Threads, NEW size \in Nat, NEW after \in Ending \cup {"synced"},
           after \in After, after \in Ending => th[t].op = "truncate",
           th[t].pc \in {"section", "replied"},
           fuse_release_nowrite(t, size, after),
           isize' \in Nat, UNCHANGED <<connected, ilock, pageVars>>
    PROVE  WriteInv'
<1> DEFINE s == [th[t] EXCEPT !.pc = "flush", !.crop = size, !.after = after]
<1>0. th[t] \in Registers /\ MutexOf(t, th[t], ilock) /\ t \notin asleep
  BY DEF WriteInv, TypeOK, MutexInv, SleepInv
<1>1. /\ s \in Registers /\ s.pc = "flush" /\ s.after = after
      /\ s.op = th[t].op /\ s.req = th[t].req
  BY <1>0 DEF Registers, PC
<1>2. th' = [th EXCEPT ![t] = s]
  BY <1>0 DEF fuse_release_nowrite, WriteInv, TypeOK
<1> HIDE DEF s
<1>3. /\ UNCHANGED <<connected, ilock, cache, ver, req, queued, writepages, pend,
                     asleep>>
      /\ writectr' = 0 /\ fclock' = t /\ FcLock(t)
  BY DEF pageVars, dataVars, fuse_release_nowrite
<1>4. MutexOf(t, s, ilock')
  BY <1>0, <1>1, <1>3 DEF MutexOf, Holding, Ending
<1>5. Stepped(t, s)
  BY <1>1, <1>2, <1>3, <1>4 DEF Stepped
<1>6. Kept(t, s)
  BY <1>1, <1>3, <1>5 DEF Kept, Ending
<1>7. TypeOK'
  BY <1>3, <1>6, KeptType DEF WriteInv, TypeOK
<1>8. FUSE_NOWRITE # 0
  BY SMT DEF FUSE_NOWRITE
<1>9. SleepInv'
  BY <1>0, <1>3, <1>6, <1>8, KeptSleep
<1>10. WritectrExact'
  <2>1. /\ th' \in [Threads -> Registers] /\ MutexInv' /\ Sent' = Sent
        /\ th'[t] = s /\ \A u \in Threads \ {t} : th'[u] = th[u]
    BY <1>6, KeptRequests
  <2>2. \A u \in Threads : th'[u].pc \notin {"waitwrites", "section", "replied"}
    BY <1>1, <2>1, AloneBiased
  <2>3. Biased /\ ~Biased'
    BY <2>2 DEF Biased, InSection
  <2>4. writectr = FUSE_NOWRITE /\ writectr = Cardinality(Sent) + FUSE_NOWRITE
    BY <2>3 DEF WriteInv, WritectrExact, InSection
  <2>5. Cardinality(Sent) = 0
    BY <2>4, Counts
  <2>6. writectr' = Cardinality(Sent') + (IF Biased' THEN FUSE_NOWRITE ELSE 0)
    BY <2>1, <2>3, <2>5, <1>3
  <2> QED BY <2>1, <2>2, <2>5, <2>6, ExactAgain
<1> QED BY <1>6, <1>7, <1>9, <1>10, KeptRequests DEF WriteInv

LEMMA By_fsync_release ==
    ASSUME WriteInv, NEW t \in Threads, fsync_release(t)
    PROVE  WriteInv'
<1>1. /\ fuse_release_nowrite(t, isize, "synced") /\ th[t].pc = "section"
      /\ UNCHANGED <<connected, ilock, isize, pageVars>>
  BY DEF fsync_release, At, inodeVars
<1>2. isize \in Nat /\ isize' \in Nat
  BY <1>1 DEF WriteInv, TypeOK
<1> QED BY <1>1, <1>2, By_fuse_release_nowrite DEF After, Ending

LEMMA By_setattr_request ==
    ASSUME WriteInv, NEW t \in Threads, setattr_request(t)
    PROVE  WriteInv'
<1>1. th[t].pc = "section" /\ th[t].op = "truncate" /\ UNCHANGED <<inodeVars, pageVars>>
  BY DEF setattr_request, At
<1>2. CASE Goto(t, "replied") /\ UNCHANGED reqVars
  BY <1>1, <1>2, By_setattr_replied
<1>3. CASE fuse_release_nowrite(t, isize, "unlock")
  <2>1. isize \in Nat /\ isize' \in Nat /\ UNCHANGED <<connected, ilock>>
    BY <1>1 DEF WriteInv, TypeOK, inodeVars
  <2> QED BY <1>1, <1>3, <2>1, By_fuse_release_nowrite DEF After, Ending
<1> QED BY <1>2, <1>3 DEF setattr_request

LEMMA By_setattr_apply ==
    ASSUME WriteInv, NEW t \in Threads, setattr_apply(t)
    PROVE  WriteInv'
<1>1. /\ th[t].pc = "replied" /\ th[t].op = "truncate" /\ isize' = th[t].size
      /\ UNCHANGED <<connected, ilock, pageVars>>
  BY DEF setattr_apply, At
<1>2. PICK a \in {"unlock", "truncate"} : fuse_release_nowrite(t, th[t].size, a)
  BY DEF setattr_apply
<1>3. th[t].size \in Nat
  BY DEF WriteInv, TypeOK, Registers
<1> QED BY <1>1, <1>2, <1>3, By_fuse_release_nowrite DEF After, Ending

LEMMA By_fuse_set_nowrite ==
    ASSUME WriteInv, NEW t \in Threads, fuse_set_nowrite(t)
    PROVE  WriteInv'
<1> DEFINE s == [th[t] EXCEPT !.pc = "waitwrites"]
<1>a. th[t].pc = "nowrite"
  BY DEF fuse_set_nowrite
<1>0. th[t] \in Registers /\ MutexOf(t, th[t], ilock) /\ t \notin asleep
  BY <1>a DEF WriteInv, TypeOK, MutexInv, SleepInv
<1>1. /\ s \in Registers /\ s.pc = "waitwrites" /\ s.after = th[t].after
      /\ s.op = th[t].op /\ s.req = th[t].req
  BY <1>0 DEF Registers, PC
<1>2. th' = [th EXCEPT ![t] = s]
  BY <1>0 DEF fuse_set_nowrite, Goto, WriteInv, TypeOK
<1> HIDE DEF s
<1>3. /\ UNCHANGED <<connected, ilock, isize, cache, ver, req, queued, writepages,
                     pend, asleep, fclock>>
      /\ writectr' = writectr + FUSE_NOWRITE
  BY DEF pageVars, dataVars, inodeVars, fuse_set_nowrite
<1>4. MutexOf(t, s, ilock')
  BY <1>0, <1>1, <1>3, <1>a DEF MutexOf, Holding, Ending
<1>5. Stepped(t, s)
  BY <1>1, <1>2, <1>3, <1>4 DEF Stepped
<1>6. Kept(t, s)
  BY <1>1, <1>3, <1>5, <1>a DEF Kept, WriteInv, TypeOK
<1>7. TypeOK'
  BY SMTT(30), <1>3, <1>6, KeptType, Counts DEF WriteInv, TypeOK
<1>8. /\ th' \in [Threads -> Registers] /\ MutexInv' /\ Sent' = Sent
      /\ th'[t] = s /\ \A u \in Threads \ {t} : th'[u] = th[u]
  BY <1>6, KeptRequests
<1>9. /\ \A u \in Threads :
           th[u].pc \notin {"waitwrites", "section", "replied"}
      /\ \A u \in Threads : th'[u].pc \notin {"section", "replied"}
  BY <1>a, <1>1, <1>8, AloneBiased
<1>10. SleepInv'
  <2>1. \A u \in asleep : u \in Threads \ {t} /\ th'[u] = th[u] /\ th[u].pc # "waitwrites"
    BY <1>0, <1>8, <1>9 DEF WriteInv, TypeOK
  <2>2. \A p : fuse_page_is_writeback(p)' <=> fuse_page_is_writeback(p)
    BY <1>6, KeptRequests
  <2>3. \A u \in asleep : th[u].pc = "waitpage" /\ fuse_page_is_writeback(th[u].page)
    BY <2>1 DEF WriteInv, SleepInv
  <2> QED BY <2>1, <2>2, <2>3, <1>3 DEF SleepInv, fuse_page_is_writeback, Span, Num
<1>11. WritectrExact'
  <2>1. ~Biased /\ Biased'
    BY <1>1, <1>8, <1>9 DEF Biased, InSection
  <2>2. writectr = Cardinality(Sent)
    BY <2>1, Counts DEF WriteInv, WritectrExact
  <2>3. writectr' = Cardinality(Sent') + (IF Biased' THEN FUSE_NOWRITE ELSE 0)
    BY <2>1, <2>2, <1>3, <1>8
  <2> QED BY <1>8, <1>9, <2>3, Counts, ExactAgain
<1> QED BY <1>6, <1>7, <1>10, <1>11, KeptRequests DEF WriteInv

(* A thread falls asleep only for something that has not happened.         *)
LEMMA FallsAsleep ==
    ASSUME WriteInv, NEW t \in Threads, asleep' = asleep \cup {t},
           UNCHANGED <<inodeVars, pageVars, writepages, queued, writectr, req, pend,
                       fclock, th>>,
           \/ th[t].pc = "waitpage" /\ fuse_page_is_writeback(th[t].page)
           \/ th[t].pc = "waitwrites" /\ writectr # FUSE_NOWRITE
    PROVE  WriteInv'
<1>1. UNCHANGED <<connected, ilock, isize, cache, ver>>
  BY DEF inodeVars, pageVars, dataVars
<1>2. TypeOK'
  BY <1>1 DEF WriteInv, TypeOK
<1>3. MutexInv' /\ LockInv'
  BY <1>1 DEF WriteInv, MutexInv, LockInv
<1>4. FillInv' /\ OwnInv'
  BY DEF WriteInv, FillInv, FillOf, Num, OwnInv
<1>5. FreeInv' /\ QueueInv' /\ ChainInv' /\ PendInv'
  BY <1>1, RequestsStay
<1>6. SleepInv'
  BY DEF WriteInv, SleepInv, fuse_page_is_writeback, Span, Num
<1>7. WritectrExact'
  BY DEF WriteInv, WritectrExact, Sent, Biased, InSection
<1> QED BY <1>2, <1>3, <1>4, <1>5, <1>6, <1>7 DEF WriteInv

LEMMA By_set_nowrite_wait ==
    ASSUME WriteInv, NEW t \in Threads, set_nowrite_wait(t)
    PROVE  WriteInv'
<1>1. th[t].pc = "waitwrites" /\ t \notin asleep
  BY DEF set_nowrite_wait
<1>2. CASE writectr # FUSE_NOWRITE
  BY <1>1, <1>2, FallsAsleep DEF set_nowrite_wait
<1>3. CASE writectr = FUSE_NOWRITE
  <2> DEFINE s == [th[t] EXCEPT !.pc = "section"]
  <2>0. th[t] \in Registers /\ MutexOf(t, th[t], ilock)
    BY DEF WriteInv, TypeOK, MutexInv
  <2>1. /\ s \in Registers /\ s.pc = "section" /\ s.after = th[t].after
        /\ s.op = th[t].op /\ s.req = th[t].req
    BY <2>0 DEF Registers, PC
  <2>2. th' = [th EXCEPT ![t] = s]
    BY <1>3, <2>0 DEF set_nowrite_wait, Goto, WriteInv, TypeOK
  <2> HIDE DEF s
  <2>3. UNCHANGED <<connected, ilock, isize, cache, ver, req, queued, writepages,
                    pend, asleep, fclock, writectr>>
    BY <1>3 DEF pageVars, dataVars, inodeVars, set_nowrite_wait
  <2>4. MutexOf(t, s, ilock')
    BY <2>0, <2>1, <2>3, <1>1 DEF MutexOf, Holding, Ending
  <2>5. Stepped(t, s)
    BY <2>1, <2>2, <2>3, <2>4 DEF Stepped
  <2>6. Kept(t, s)
    BY <2>1, <2>3, <2>5, <1>1 DEF Kept, WriteInv, TypeOK
  <2>7. TypeOK'
    BY <2>3, <2>6, KeptType DEF WriteInv, TypeOK
  <2>8. SleepInv'
    BY <1>1, <2>3, <2>6, KeptSleep
  <2>9. /\ th' \in [Threads -> Registers] /\ MutexInv' /\ Sent' = Sent
        /\ th'[t] = s /\ \A u \in Threads \ {t} : th'[u] = th[u]
    BY <2>6, KeptRequests
  <2>10. Biased /\ Biased'
    BY <1>1, <2>1, <2>9 DEF Biased, InSection
  <2>11. writectr' = Cardinality(Sent') + (IF Biased' THEN FUSE_NOWRITE ELSE 0)
    BY <2>10, <2>3, <2>9 DEF WriteInv, WritectrExact
  <2>12. WritectrExact'
    BY <2>9, <2>11, <1>3, <2>3, Counts, ExactAgain
  <2> QED BY <2>6, <2>7, <2>8, <2>12, KeptRequests DEF WriteInv
<1> QED BY <1>2, <1>3

LEMMA By_fuse_wait_on_page_writeback ==
    ASSUME WriteInv, NEW t \in Threads, fuse_wait_on_page_writeback(t)
    PROVE  WriteInv'
<1>1. th[t].pc = "waitpage" /\ t \notin asleep
  BY DEF fuse_wait_on_page_writeback
<1>2. CASE fuse_page_is_writeback(th[t].page)
  BY <1>1, <1>2, FallsAsleep DEF fuse_wait_on_page_writeback
<1>3. CASE ~fuse_page_is_writeback(th[t].page)
  <2> DEFINE s == [th[t] EXCEPT !.pc = th[t].after, !.after = "idle"]
  <2>0. th[t] \in Registers /\ MutexOf(t, th[t], ilock)
    BY DEF WriteInv, TypeOK, MutexInv
  <2>0a. th[t].after \in {"store", "laundered"}
    BY <2>0, <1>1 DEF MutexOf
  <2>1. /\ s \in Registers /\ s.pc = th[t].after /\ s.after = "idle"
        /\ s.op = th[t].op /\ s.req = th[t].req
    BY ZenonT(30), <2>0, <2>0a DEF Registers, PC, After
  <2>2. th' = [th EXCEPT ![t] = s]
    BY <1>3, <2>0 DEF fuse_wait_on_page_writeback, WriteInv, TypeOK
  <2> HIDE DEF s
  <2>3. UNCHANGED <<connected, ilock, isize, cache, ver, req, queued, writepages,
                    pend, asleep, fclock, writectr>>
    BY <1>3 DEF pageVars, dataVars, inodeVars, fuse_wait_on_page_writeback
  <2>4. MutexOf(t, s, ilock')
    BY <2>0, <2>0a, <2>1, <2>3, <1>1 DEF MutexOf, Holding, Ending
  <2>5. Stepped(t, s)
    BY <2>1, <2>2, <2>3, <2>4 DEF Stepped
  <2>6. Kept(t, s)
    BY <2>0a, <2>1, <2>3, <2>5, <1>1 DEF Kept, WriteInv, TypeOK
  <2>7. TypeOK'
    BY <2>3, <2>6, KeptType DEF WriteInv, TypeOK
  <2>8. SleepInv'
    BY <1>1, <2>3, <2>6, KeptSleep
  <2>9. /\ th' \in [Threads -> Registers] /\ MutexInv' /\ Sent' = Sent
        /\ th'[t] = s /\ \A u \in Threads \ {t} : th'[u] = th[u]
    BY <2>6, KeptRequests
  <2>10. Biased <=> Biased'
    BY <1>1, <2>0a, <2>1, <2>9 DEF Biased, InSection
  <2>11. writectr' = Cardinality(Sent') + (IF Biased' THEN FUSE_NOWRITE ELSE 0)
    BY <2>10, <2>3, <2>9 DEF WriteInv, WritectrExact
  <2>12. \A u \in Threads : th'[u].pc \in {"section", "replied"}
                            => writectr' = FUSE_NOWRITE
    BY <2>0a, <2>1, <2>3, <2>9 DEF WriteInv, WritectrExact, InSection
  <2>13. WritectrExact'
    BY <2>9, <2>11, <2>12, Counts, ExactAgain
  <2> QED BY <2>6, <2>7, <2>8, <2>13, KeptRequests DEF WriteInv
<1> QED BY <1>2, <1>3

(* Steps that the invariant does not notice: a direct read fills a page,   *)
(* the connection is aborted.                                              *)
LEMMA Unnoticed ==
    ASSUME WriteInv, UNCHANGED <<th, reqVars, ilock, isize>>,
           connected' => connected, ver' \in Nat, cache' \in [Pages -> Nat]
    PROVE  WriteInv'
<1>1. UNCHANGED <<writepages, queued, writectr, asleep, req, pend, fclock>>
  BY DEF reqVars, listVars
<1>2. TypeOK'
  BY <1>1 DEF WriteInv, TypeOK
<1>3. MutexInv' /\ LockInv'
  BY <1>1 DEF WriteInv, MutexInv, LockInv
<1>4. FillInv' /\ OwnInv'
  BY <1>1 DEF WriteInv, FillInv, FillOf, Num, OwnInv
<1>5. FreeInv' /\ QueueInv' /\ ChainInv' /\ PendInv'
  BY <1>1, RequestsStay
<1>6. SleepInv'
  BY <1>1 DEF WriteInv, SleepInv, fuse_page_is_writeback, Span, Num
<1>7. WritectrExact'
  BY <1>1 DEF WriteInv, WritectrExact, Sent, Biased, InSection
<1> QED BY <1>2, <1>3, <1>4, <1>5, <1>6, <1>7 DEF WriteInv

LEMMA By_fuse_release_user_pages ==
    ASSUME WriteInv, NEW p \in Pages, fuse_release_user_pages(p)
    PROVE  WriteInv'
<1>1. ver' \in Nat /\ cache' \in [Pages -> Nat]
  BY DEF WriteInv, TypeOK, fuse_release_user_pages, Store
<1>2. UNCHANGED <<th, reqVars, ilock, isize, connected>>
  BY DEF fuse_release_user_pages, inodeVars
<1> QED BY <1>1, <1>2, Unnoticed

LEMMA By_abort_conn ==
    ASSUME WriteInv, abort_conn PROVE WriteInv'
<1>1. UNCHANGED <<th, reqVars, ilock, isize, ver, cache>> /\ ~connected'
  BY DEF abort_conn, pageVars, dataVars
<1> QED BY <1>1, Unnoticed DEF WriteInv, TypeOK

LEMMA Stuttering == ASSUME WriteInv, UNCHANGED vars PROVE WriteInv'
<1>1. UNCHANGED <<th, reqVars, ilock, isize, ver, cache, connected>>
  BY DEF vars, inodeVars, pageVars, dataVars
<1> QED BY <1>1, Unnoticed DEF WriteInv, TypeOK

(***************************************************************************)
(* The daemon, and the end of a request                                    *)
(***************************************************************************)

InFlight == {"pending", "read", "copied", "ending"}

(* One request changes, and no thread.                                     *)
ReqSet(q, x) ==
    /\ x \in Request /\ req' = [req EXCEPT ![q] = x]
    /\ x.idx = req[q].idx /\ x.data = req[q].data /\ x.chain = req[q].chain
    /\ UNCHANGED <<th, ilock, isize, cache, ver, connected, writepages, queued, asleep>>

LEMMA ReqSetFields ==
    ASSUME WriteInv, NEW q \in Reqs, NEW x, ReqSet(q, x)
    PROVE  /\ req' \in [Reqs -> Request] /\ req'[q] = x
           /\ \A r \in Reqs \ {q} : req'[r] = req[r]
           /\ \A r \in Reqs : /\ req'[r].idx = req[r].idx
                              /\ req'[r].data = req[r].data
                              /\ req'[r].chain = req[r].chain
  BY DEF WriteInv, TypeOK, ReqSet

(* The chains, the threads and the pages under writeback do not notice it. *)
LEMMA ReqSetKeeps ==
    ASSUME WriteInv, NEW q \in Reqs, NEW x, ReqSet(q, x),
           req[q].st \in InFlight \cup {"finishing"},
           x.st \in InFlight \cup {"finishing"},
           x.st \in {"pending", "read"} => x.size <= Len(x.data)
    PROVE  /\ MutexInv' /\ FillInv' /\ FreeInv' /\ OwnInv' /\ QueueInv' /\ ChainInv'
           /\ \A p : fuse_page_is_writeback(p)' <=> fuse_page_is_writeback(p)
<1>1. /\ req' \in [Reqs -> Request] /\ req'[q] = x
      /\ \A r \in Reqs \ {q} : req'[r] = req[r]
      /\ \A r \in Reqs : /\ req'[r].idx = req[r].idx
                         /\ req'[r].data = req[r].data
                         /\ req'[r].chain = req[r].chain
  BY ReqSetFields
<1>2. UNCHANGED <<th, ilock, writepages, queued>>
  BY DEF ReqSet
<1>3. \A r \in Reqs : req[r].st \in {"new", "queued", "chained", "free"}
                      => req'[r] = req[r]
  BY <1>1 DEF InFlight
<1>4. MutexInv'
  BY <1>2 DEF WriteInv, MutexInv
<1>5. FillInv'
  <2>1. ASSUME NEW t \in Threads PROVE FillOf(th[t])'
    <3>1. FillOf(th[t]) /\ th[t].req \in Reqs \cup {None}
      BY DEF WriteInv, FillInv, TypeOK, Registers
    <3> QED BY <3>1, <1>1, <1>2 DEF FillOf, Num
  <2> QED BY <2>1 DEF FillInv
<1>6. FreeInv'
  BY <1>1 DEF WriteInv, FreeInv, Num, InFlight
<1>7. OwnInv'
  <2>1. \A t \in Threads : th[t].req \in Reqs \cup {None}
    BY DEF WriteInv, TypeOK, Registers
  <2> QED BY <2>1, <1>2, <1>3 DEF WriteInv, OwnInv
<1>8. QueueInv'
  <2>1. \A i \in 1 .. Len(queued) : queued[i] \in Reqs
    BY ElementOfSeq DEF WriteInv, TypeOK
  <2> QED BY <2>1, <1>2, <1>3 DEF WriteInv, QueueInv
<1>9. ChainInv'
  <2>1. \A r \in Reqs : \A i \in 1 .. Len(req[r].chain) : req[r].chain[i] \in Reqs
    BY ElementOfSeq DEF WriteInv, TypeOK, Request
  <2>2. \A r \in Reqs : req'[r].chain = req[r].chain
    BY <1>1
  <2>3. \A r \in Reqs : \A i \in 1 .. Len(req[r].chain) :
           req[req[r].chain[i]].st = "chained"
    BY DEF WriteInv, ChainInv
  <2>4. \A r \in Reqs : \A i \in 1 .. Len(req'[r].chain) :
           req'[req'[r].chain[i]].st = "chained"
    BY <2>1, <2>2, <2>3, <1>3
  <2>5. \A r, s \in Reqs :
         \A i \in 1 .. Len(req'[r].chain), j \in 1 .. Len(req'[s].chain) :
            req'[r].chain[i] = req'[s].chain[j] => r = s /\ i = j
    <3>1. ASSUME NEW r \in Reqs, NEW s \in Reqs
          PROVE  \A i \in 1 .. Len(req[r].chain), j \in 1 .. Len(req[s].chain) :
                    req[r].chain[i] = req[s].chain[j] => r = s /\ i = j
      BY DEF WriteInv, ChainInv
    <3>2. ASSUME NEW r \in Reqs, NEW s \in Reqs
          PROVE  \A i \in 1 .. Len(req'[r].chain), j \in 1 .. Len(req'[s].chain) :
                    req'[r].chain[i] = req'[s].chain[j] => r = s /\ i = j
      <4>1. req'[r].chain = req[r].chain /\ req'[s].chain = req[s].chain
        BY <2>2
      <4> QED BY <4>1, <3>1
    <3> QED BY <3>2
  <2> QED BY <2>4, <2>5 DEF ChainInv
<1>10. \A p : fuse_page_is_writeback(p)' <=> fuse_page_is_writeback(p)
  <2>1. \A r \in writepages : r \in Reqs
    BY DEF WriteInv, TypeOK
  <2> QED BY <2>1, <1>1, <1>2 DEF fuse_page_is_writeback, Span, Num
<1> QED BY <1>4, <1>5, <1>6, <1>7, <1>8, <1>9, <1>10

(* The daemon reads, copies or answers a request, or it fails: the request *)
(* is still in flight.                                                     *)
LEMMA ServedKeeps ==
    ASSUME WriteInv, NEW q \in Reqs, NEW x, ReqSet(q, x),
           req[q].st \in InFlight, x.st \in InFlight,
           x.st \in {"pending", "read"} => x.size <= Len(x.data),
           UNCHANGED <<writectr, fclock>>, PendInv'
    PROVE  WriteInv'
<1>1. /\ req' \in [Reqs -> Request] /\ req'[q] = x
      /\ \A r \in Reqs \ {q} : req'[r] = req[r]
  BY ReqSetFields
<1>2. UNCHANGED <<th, ilock, isize, cache, ver, connected, writepages, queued, asleep>>
  BY DEF ReqSet
<1>3. TypeOK'
  BY <1>1, <1>2 DEF WriteInv, TypeOK
<1>4. /\ MutexInv' /\ FillInv' /\ FreeInv' /\ OwnInv' /\ QueueInv' /\ ChainInv'
      /\ \A p : fuse_page_is_writeback(p)' <=> fuse_page_is_writeback(p)
  BY ReqSetKeeps
<1>5. \A r \in Reqs : req'[r].st = "finishing" <=> req[r].st = "finishing"
  BY <1>1 DEF InFlight
<1>6. LockInv'
  BY <1>2, <1>5 DEF WriteInv, LockInv
<1>7. SleepInv'
  <2>1. ASSUME NEW t \in asleep
        PROVE  \/ th'[t].pc = "waitpage" /\ fuse_page_is_writeback(th[t].page)'
               \/ th'[t].pc = "waitwrites"
                  /\ (writectr' # FUSE_NOWRITE
                      \/ \E r \in Reqs : req'[r].st = "finishing")
    <3>1. \/ th[t].pc = "waitpage" /\ fuse_page_is_writeback(th[t].page)
          \/ th[t].pc = "waitwrites"
             /\ (writectr # FUSE_NOWRITE
                 \/ \E r \in Reqs : req[r].st = "finishing")
      BY DEF WriteInv, SleepInv
    <3> QED BY <3>1, <1>2, <1>4, <1>5 DEF fuse_page_is_writeback, Span, Num
  <2> QED BY <2>1, <1>2 DEF SleepInv, fuse_page_is_writeback, Span, Num
<1>8. Sent' = Sent
  BY <1>1 DEF Sent, InFlight
<1>9. WritectrExact'
  BY <1>2, <1>8 DEF WriteInv, WritectrExact, Biased, InSection
<1> QED BY <1>3, <1>4, <1>6, <1>7, <1>9 DEF WriteInv

(* The queue of the device, when no request enters it.                     *)
LEMMA QueueOfDevice ==
    ASSUME WriteInv, NEW q \in Reqs, NEW x, ReqSet(q, x), UNCHANGED pend,
           req[q].st # "pending"
    PROVE  PendInv'
<1>1. \A r \in Reqs \ {q} : req'[r] = req[r]
  BY ReqSetFields
<1>2. connected => \A i \in 1 .. Len(pend) : pend[i] \in Reqs
  BY ElementOfSeq DEF WriteInv, PendInv
<1>3. UNCHANGED connected
  BY DEF ReqSet
<1> QED BY <1>1, <1>2, <1>3 DEF WriteInv, PendInv

LEMMA By_dev_read ==
    ASSUME WriteInv, NEW q \in Reqs, dev_read(q) PROVE WriteInv'
<1> DEFINE x == [req[q] EXCEPT !.st = "read"]
<1>0. req[q] \in Request /\ pend \in Seq(Reqs) /\ pend # <<>> /\ q = Head(pend)
  BY DEF WriteInv, TypeOK, PendInv, dev_read
<1>1. /\ x \in Request /\ x.st = "read" /\ x.size = req[q].size
      /\ x.idx = req[q].idx /\ x.data = req[q].data /\ x.chain = req[q].chain
  BY <1>0 DEF Request, Status
<1>2. req' = [req EXCEPT ![q] = x]
  BY <1>0 DEF dev_read, WriteInv, TypeOK
<1> HIDE DEF x
<1>3. ReqSet(q, x) /\ UNCHANGED <<writectr, fclock>>
  BY <1>1, <1>2 DEF ReqSet, dev_read, inodeVars, pageVars, dataVars, listVars
<1>4. /\ Len(pend) \in Nat \ {0} /\ q = pend[1] /\ pend' = Tail(pend)
      /\ Len(pend') = Len(pend) - 1 /\ pend' \in Seq(Reqs)
      /\ \A i \in 1 .. Len(pend') : pend'[i] = pend[i + 1]
  BY <1>0, EmptySeq, HeadTailProperties DEF dev_read
<1>5. /\ \A i \in 1 .. Len(pend) : req[pend[i]].st = "pending" /\ pend[i] \in Reqs
      /\ \A i, j \in 1 .. Len(pend) : pend[i] = pend[j] => i = j
  BY <1>0, ElementOfSeq DEF WriteInv, PendInv, dev_read
<1>6. req[q].st = "pending"
  BY <1>4, <1>5
<1>7. PendInv'
  <2>1. \A i \in 1 .. Len(pend') : i + 1 \in 1 .. Len(pend) /\ i + 1 # 1 /\ 1 \in 1 .. Len(pend)
    BY <1>4
  <2>2. \A i \in 1 .. Len(pend') : pend'[i] \in Reqs \ {q}
    BY <2>1, <1>4, <1>5
  <2>3. \A i \in 1 .. Len(pend') : req'[pend'[i]].st = "pending"
    BY <2>1, <2>2, <1>2, <1>4, <1>5 DEF WriteInv, TypeOK
  <2>4. \A i, j \in 1 .. Len(pend') : pend'[i] = pend'[j] => i = j
    <3>1. ASSUME NEW i \in 1 .. Len(pend'), NEW j \in 1 .. Len(pend'), pend'[i] = pend'[j]
          PROVE  i = j
      <4>1. i + 1 = j + 1
        BY <3>1, <2>1, <1>4, <1>5
      <4> QED BY <4>1
    <3> QED BY <3>1
  <2> QED BY <2>3, <2>4, <1>4 DEF PendInv
<1>8. x.size <= Len(x.data)
  BY <1>1, <1>6 DEF WriteInv, FreeInv, Num
<1> QED BY <1>1, <1>3, <1>6, <1>7, <1>8, ServedKeeps DEF InFlight

LEMMA By_dev_copy ==
    ASSUME WriteInv, NEW q \in Reqs, dev_copy(q) PROVE WriteInv'
<1> DEFINE w == SubSeq(req[q].data, 1, req[q].size)
           x == [req[q] EXCEPT !.st = "copied", !.wire = w]
<1>a. req[q].st = "read" /\ req[q] \in Request
  BY DEF dev_copy, WriteInv, TypeOK
<1>b. w \in Seq(Nat)
  <2>1. /\ req[q].data \in Seq(Nat) /\ req[q].size \in Nat
        /\ req[q].size <= Len(req[q].data)
    BY <1>a DEF Request, WriteInv, FreeInv, Num
  <2>2. \A i \in 1 .. req[q].size : req[q].data[i] \in Nat
    BY <2>1, ElementOfSeq, LenProperties
  <2> QED BY <2>1, <2>2, SubSeqProperties
<1> HIDE DEF w
<1>1. /\ x \in Request /\ x.st = "copied"
      /\ x.idx = req[q].idx /\ x.data = req[q].data /\ x.chain = req[q].chain
  BY <1>a, <1>b DEF Request, Status
<1>2. req' = [req EXCEPT ![q] = x]
  BY <1>a DEF dev_copy, WriteInv, TypeOK, w
<1> HIDE DEF x
<1>3. ReqSet(q, x) /\ UNCHANGED <<writectr, fclock, pend>>
  BY <1>1, <1>2 DEF ReqSet, dev_copy, inodeVars, pageVars, dataVars, listVars
<1>4. PendInv'
  BY <1>a, <1>3, QueueOfDevice
<1> QED BY <1>1, <1>3, <1>4, <1>a, ServedKeeps DEF InFlight

(* The request has ended, with success or without.                         *)
LEMMA Ended ==
    ASSUME WriteInv, NEW q \in Reqs, req[q].st \in InFlight,
           req' = [req EXCEPT ![q].st = "ending", ![q].wire = <<>>],
           UNCHANGED <<connected, ilock, isize, th, pageVars>> \/
           UNCHANGED <<connected, ilock, isize, th, cache, ver>>,
           UNCHANGED <<listVars, fclock>>,
           (req[q].st # "pending" /\ UNCHANGED pend) \/ ~connected
    PROVE  WriteInv'
<1> DEFINE x == [req[q] EXCEPT !.st = "ending", !.wire = <<>>]
<1>a. req[q] \in Request
  BY DEF WriteInv, TypeOK
<1>1. /\ x \in Request /\ x.st = "ending"
      /\ x.idx = req[q].idx /\ x.data = req[q].data /\ x.chain = req[q].chain
  <2>1. <<>> \in Seq(Nat)
    BY EmptySeq
  <2> QED BY <1>a, <2>1 DEF Request, Status
<1>2. req' = [req EXCEPT ![q] = x]
  BY <1>a DEF WriteInv, TypeOK
<1> HIDE DEF x
<1>3. ReqSet(q, x) /\ UNCHANGED <<writectr, fclock>>
  BY <1>1, <1>2 DEF ReqSet, pageVars, dataVars, listVars
<1>4. PendInv'
  <2>1. CASE req[q].st # "pending" /\ UNCHANGED pend
    BY <2>1, <1>3, QueueOfDevice
  <2>2. CASE ~connected
    BY <2>2, <1>3 DEF PendInv, ReqSet
  <2> QED BY <2>1, <2>2
<1> QED BY <1>1, <1>3, <1>4, ServedKeeps DEF InFlight

LEMMA By_dev_reply ==
    ASSUME WriteInv, NEW q \in Reqs, dev_reply(q) PROVE WriteInv'
<1>1. /\ req[q].st = "copied"
      /\ req' = [req EXCEPT ![q].st = "ending", ![q].wire = <<>>]
      /\ UNCHANGED <<connected, ilock, isize, th, pageVars>>
      /\ UNCHANGED <<listVars, fclock>> /\ UNCHANGED pend
  BY DEF dev_reply, inodeVars
<1> QED BY <1>1, Ended DEF InFlight

LEMMA By_dev_error ==
    ASSUME WriteInv, NEW q \in Reqs, dev_error(q) PROVE WriteInv'
<1>1. /\ req' = [req EXCEPT ![q].st = "ending", ![q].wire = <<>>]
      /\ UNCHANGED <<connected, ilock, isize, th, cache, ver>>
      /\ UNCHANGED <<listVars, fclock>>
  BY DEF dev_error
<1>2. \/ req[q].st \in {"read", "copied"} /\ UNCHANGED pend
      \/ req[q].st = "pending" /\ ~connected
  BY DEF dev_error
<1> QED BY <1>1, <1>2, Ended DEF InFlight

(* Whoever has fc->lock keeps out the steps that hold it.                  *)
LEMMA LockKeepsOut ==
    ASSUME WriteInv, NEW h \in Threads \cup Reqs, FcLock(h)
    PROVE  /\ \A t \in Threads \ {h} : th[t].pc # "inplace"
           /\ \A q \in Reqs \ {h} : req[q].st # "finishing"
  BY DEF WriteInv, LockInv, FcLock

LEMMA ReadyToFree ==
    /\ FreeReq \in Request /\ FreeReq.st = "free" /\ FreeReq.chain = <<>>
    /\ Len(FreeReq.chain) = 0 /\ FreeReq.data = <<>>
<1>1. <<>> \in Seq(Nat) /\ <<>> \in Seq(Reqs) /\ Len(<<>>) = 0
  BY EmptySeq
<1> QED BY <1>1, ZeroPage DEF FreeReq, Request, Status

LEMMA By_writepage_end_count ==
    ASSUME WriteInv, NEW q \in Reqs, writepage_end_count(q) PROVE WriteInv'
<1> DEFINE x == [req[q] EXCEPT !.st = "finishing"]
<1>a. req[q].st = "ending" /\ req[q] \in Request /\ FcLock(q)
  BY DEF WriteInv, TypeOK, writepage_end_count
<1>1. /\ x \in Request /\ x.st = "finishing"
      /\ x.idx = req[q].idx /\ x.data = req[q].data /\ x.chain = req[q].chain
  BY <1>a DEF Request, Status
<1>2. req' = [req EXCEPT ![q] = x]
  BY <1>a DEF writepage_end_count, WriteInv, TypeOK
<1> HIDE DEF x
<1>3. /\ ReqSet(q, x) /\ writectr' = writectr - 1 /\ fclock' = q /\ UNCHANGED pend
      /\ UNCHANGED <<th, ilock, isize, cache, ver, connected, writepages, queued, asleep>>
  BY <1>1, <1>2 DEF ReqSet, writepage_end_count, inodeVars, pageVars, dataVars
<1>4. /\ req' \in [Reqs -> Request] /\ req'[q] = x
      /\ \A r \in Reqs \ {q} : req'[r] = req[r]
  BY <1>3, ReqSetFields
<1>5. TypeOK'
  BY <1>3, <1>4 DEF WriteInv, TypeOK
<1>6. /\ MutexInv' /\ FillInv' /\ FreeInv' /\ OwnInv' /\ QueueInv' /\ ChainInv'
      /\ \A p : fuse_page_is_writeback(p)' <=> fuse_page_is_writeback(p)
  BY <1>1, <1>3, <1>a, ReqSetKeeps DEF InFlight
<1>7. PendInv'
  BY <1>3, <1>a, QueueOfDevice
<1>8. LockInv'
  BY <1>3, <1>4, <1>a, LockKeepsOut DEF LockInv
<1>9. SleepInv'
  <2>1. \E r \in Reqs : req'[r].st = "finishing"
    BY <1>1, <1>4
  <2>2. ASSUME NEW t \in asleep
        PROVE  \/ th'[t].pc = "waitpage" /\ fuse_page_is_writeback(th[t].page)'
               \/ th'[t].pc = "waitwrites"
    <3>1. \/ th[t].pc = "waitpage" /\ fuse_page_is_writeback(th[t].page)
          \/ th[t].pc = "waitwrites"
      BY DEF WriteInv, SleepInv
    <3> QED BY <3>1, <1>3, <1>6 DEF fuse_page_is_writeback, Span, Num
  <2> QED BY <2>1, <2>2, <1>3 DEF SleepInv, fuse_page_is_writeback, Span, Num
<1>10. WritectrExact'
  <2>1. q \in Sent /\ Sent' = Sent \ {q}
    BY <1>1, <1>4, <1>a DEF Sent
  <2>2. /\ Cardinality(Sent') = Cardinality(Sent) - 1
        /\ Cardinality(Sent) \in Nat \ {0}
    BY <2>1, Counts, FS_RemoveElement
  <2>3. Biased' <=> Biased
    BY <1>3 DEF Biased, InSection
  <2>4. writectr = Cardinality(Sent) + (IF Biased THEN FUSE_NOWRITE ELSE 0)
    BY DEF WriteInv, WritectrExact
  <2>5. writectr' = Cardinality(Sent') + (IF Biased' THEN FUSE_NOWRITE ELSE 0)
    BY <2>2, <2>3, <2>4, <1>3, Counts
  <2>6. \A t \in Threads : ~InSection(t)
    <3>1. ASSUME NEW t \in Threads, InSection(t) PROVE FALSE
      <4>1. Biased /\ writectr = FUSE_NOWRITE
        BY <3>1 DEF Biased, WriteInv, WritectrExact
      <4> QED BY <4>1, <2>2, <2>4, Counts
    <3> QED BY <3>1
  <2>7. Cardinality(Sent') \in Nat
    BY <2>2
  <2>8. th' \in [Threads -> Registers]
    BY <1>5 DEF TypeOK
  <2> QED BY <2>5, <2>6, <2>7, <2>8, <1>3, <1>6, ExactAgain DEF InSection
<1> QED BY <1>5, <1>6, <1>7, <1>8, <1>9, <1>10 DEF WriteInv

(* Request q can be sent: it is taken off the queue or off its chain.  The *)
(* requests are first changed to r, which differs from req in chains only. *)
ReadyToSend(r, q) ==
    /\ req[q].st \in {"queued", "chained"}
    /\ \A x \in Reqs : /\ r[x].st = req[x].st /\ r[x].idx = req[x].idx
                       /\ r[x].data = req[x].data /\ r[x].size = req[x].size
                       /\ r[x].st = "free" => r[x] = req[x]
    /\ \A x \in Reqs : \A i \in 1 .. Len(r[x].chain) :
          req[r[x].chain[i]].st = "chained" /\ r[x].chain[i] \in Reqs \ {q}
    /\ \A x, y \in Reqs :
          \A i \in 1 .. Len(r[x].chain), j \in 1 .. Len(r[y].chain) :
             r[x].chain[i] = r[y].chain[j] => x = y /\ i = j
    /\ queued' \in Seq(Reqs)
    /\ \A i \in 1 .. Len(queued') :
          req[queued'[i]].st = "queued" /\ queued'[i] \in Reqs \ {q}
    /\ \A i, j \in 1 .. Len(queued') : queued'[i] = queued'[j] => i = j
    /\ \A t \in Threads : ~InSection(t)

(* fuse_send_writepage, for the queue and for the chain of a request.      *)
LEMMA SendKeeps ==
    ASSUME WriteInv, NEW h \in Threads \cup Reqs, NEW q \in Reqs, NEW size \in Nat,
           NEW r \in [Reqs -> Request], NEW w \in SUBSET Reqs,
           fuse_send_writepage(r, w, q, size, h), FcLock(h),
           h \in Threads => th[h].pc # "inplace",
           h \in Reqs => req[h].st # "finishing",
           writepages \subseteq w, ReadyToSend(r, q),
           UNCHANGED <<th, connected, ilock, isize, cache, ver>>
    PROVE  WriteInv'
<1> req[q].st \in {"queued", "chained"} /\ \A t \in Threads : ~InSection(t)
  BY DEF ReadyToSend
<1> \A x \in Reqs : /\ r[x].st = req[x].st /\ r[x].idx = req[x].idx
                    /\ r[x].data = req[x].data /\ r[x].size = req[x].size
                    /\ r[x].st = "free" => r[x] = req[x]
  BY DEF ReadyToSend
<1> \A x \in Reqs : \A i \in 1 .. Len(r[x].chain) :
       req[r[x].chain[i]].st = "chained" /\ r[x].chain[i] \in Reqs \ {q}
  BY DEF ReadyToSend
<1> \A x, y \in Reqs :
       \A i \in 1 .. Len(r[x].chain), j \in 1 .. Len(r[y].chain) :
          r[x].chain[i] = r[y].chain[j] => x = y /\ i = j
  BY DEF ReadyToSend
<1> /\ queued' \in Seq(Reqs)
    /\ \A i \in 1 .. Len(queued') :
          req[queued'[i]].st = "queued" /\ queued'[i] \in Reqs \ {q}
    /\ \A i, j \in 1 .. Len(queued') : queued'[i] = queued'[j] => i = j
  BY DEF ReadyToSend
<1> DEFINE n == Min({Len(r[q].data), size - r[q].idx})
           sent == [r[q] EXCEPT !.st = "pending", !.size = n]
           Send == connected /\ r[q].idx < size
<1>0. r[q] \in Request
  OBVIOUS
<1>1. Send => n \in Nat /\ n <= Len(r[q].data)
  <2>1. r[q].data \in Seq(Nat) /\ r[q].idx \in Nat
    BY <1>0 DEF Request
  <2>2. Len(r[q].data) \in Nat
    BY <2>1, LenProperties
  <2>3. Send => size - r[q].idx \in Nat
    BY <2>1
  <2> QED BY <2>2, <2>3, TwoNumbers
<1>2. Send => /\ sent \in Request /\ sent.st = "pending" /\ sent.size = n
              /\ sent.idx = r[q].idx /\ sent.data = r[q].data /\ sent.chain = r[q].chain
  <2> HIDE DEF n
  <2> QED BY <1>0, <1>1 DEF Request, Status
<1>3. PICK new \in Request :
        /\ req' = [r EXCEPT ![q] = new]
        /\ \/ /\ Send /\ new = sent
              /\ writectr' = writectr + 1 /\ pend' = Append(pend, q)
              /\ writepages' = w /\ fclock' = h /\ UNCHANGED asleep
           \/ /\ ~Send /\ new = FreeReq
              /\ writepages' = w \ {q} /\ asleep' = {} /\ fclock' = None
              /\ UNCHANGED <<writectr, pend>>
  <2>1. CASE Send
    <3>1. req' = [r EXCEPT ![q] = sent]
      <4>1. req' = [r EXCEPT ![q].st = "pending", ![q].size = n]
        BY <2>1 DEF fuse_send_writepage
      <4> HIDE DEF n
      <4> QED BY ZenonT(30), <4>1
    <3>2. /\ writectr' = writectr + 1 /\ pend' = Append(pend, q)
          /\ writepages' = w /\ fclock' = h /\ UNCHANGED asleep
      BY <2>1 DEF fuse_send_writepage
    <3> HIDE DEF sent, Send
    <3> QED BY <2>1, <3>1, <3>2, <1>2
  <2>2. CASE ~Send
    BY <2>2, ReadyToFree DEF fuse_send_writepage
  <2> QED BY <2>1, <2>2
<1>4. /\ req' \in [Reqs -> Request] /\ req'[q] = new
      /\ \A x \in Reqs \ {q} : req'[x] = r[x]
  BY <1>3
<1>5. \/ /\ connected /\ new.st = "pending" /\ new.size <= Len(new.data)
         /\ new.idx = req[q].idx /\ new.data = req[q].data /\ new.chain = r[q].chain
         /\ writectr' = writectr + 1 /\ pend' = Append(pend, q)
         /\ writepages' = w /\ fclock' = h /\ UNCHANGED asleep
      \/ /\ new = FreeReq /\ writepages' = w \ {q} /\ asleep' = {} /\ fclock' = None
         /\ UNCHANGED <<writectr, pend>>
  <2> HIDE DEF n, sent
  <2> QED BY <1>1, <1>2, <1>3
<1> HIDE DEF n, sent, Send
<1>6. \A x \in Reqs \ {q} : /\ req'[x].st = req[x].st /\ req'[x].idx = req[x].idx
                            /\ req'[x].data = req[x].data /\ req'[x].size = req[x].size
  BY <1>4
<1>7. TypeOK'
  <2>1. writectr' \in Int /\ asleep' \subseteq Threads /\ writepages' \subseteq Reqs
    BY <1>5 DEF WriteInv, TypeOK
  <2>2. fclock' \in Threads \cup Reqs \cup {None}
    BY <1>5
  <2> QED BY <2>1, <2>2, <1>4 DEF WriteInv, TypeOK
<1>8. MutexInv'
  BY DEF WriteInv, MutexInv
<1>9. /\ \A t \in Threads : th[t].pc # "inplace"
      /\ \A x \in Reqs : req[x].st # "finishing" /\ req'[x].st # "finishing"
  <2>1. \A t \in Threads : th[t].pc # "inplace"
    BY LockKeepsOut
  <2>2. \A x \in Reqs : req[x].st # "finishing"
    BY LockKeepsOut
  <2> QED BY <2>1, <2>2, <1>4, <1>5, <1>6, ReadyToFree
<1>10. LockInv'
  BY <1>9 DEF LockInv
<1>11. \A t \in Threads : th[t].req # None => th[t].req \in Reqs \ {q}
  <2>1. \A t \in Threads : th[t].req \in Reqs \cup {None}
    BY DEF WriteInv, TypeOK, Registers
  <2>2. \A t \in Threads : th[t].req # None => req[th[t].req].st = "new"
    BY DEF WriteInv, OwnInv
  <2> QED BY <2>1, <2>2
<1>12. FillInv'
  <2>1. ASSUME NEW t \in Threads PROVE FillOf(th[t])'
    <3>1. FillOf(th[t])
      BY DEF WriteInv, FillInv
    <3> QED BY <3>1, <1>6, <1>9, <1>11 DEF FillOf
  <2> QED BY <2>1 DEF FillInv
<1>13. FreeInv'
  <2>1. \A x \in Reqs \ {q} : req'[x].st = "free" => req'[x] = FreeReq
    BY <1>4, <1>6 DEF WriteInv, FreeInv
  <2>2. \A x \in Reqs \ {q} : req'[x].st \in {"pending", "read"}
                              => req'[x].size <= Len(req'[x].data)
    BY <1>6 DEF WriteInv, FreeInv, Num
  <2>3. /\ req'[q].st = "free" => req'[q] = FreeReq
        /\ req'[q].st \in {"pending", "read"} => req'[q].size <= Len(req'[q].data)
    BY <1>4, <1>5, ReadyToFree
  <2> QED BY <2>1, <2>2, <2>3 DEF FreeInv, Num
<1>14. OwnInv'
  BY <1>6, <1>11 DEF WriteInv, OwnInv
<1>15. QueueInv'
  BY <1>6 DEF QueueInv
<1>16. ChainInv'
  <2>1. \A x \in Reqs : \/ req'[x].chain = r[x].chain
                        \/ Len(req'[x].chain) = 0
    BY <1>4, <1>5, ReadyToFree
  <2>2. \A x \in Reqs : Len(req'[x].chain) \in Nat
    BY <1>4, LenProperties DEF Request
  <2>3. ASSUME NEW x \in Reqs, NEW i \in 1 .. Len(req'[x].chain)
        PROVE  i \in 1 .. Len(r[x].chain) /\ req'[x].chain[i] = r[x].chain[i]
    <3>1. Len(req'[x].chain) # 0
      BY <2>2, <2>3
    <3> QED BY <2>1, <2>3, <3>1
  <2>4. \A x \in Reqs : \A i \in 1 .. Len(req'[x].chain) :
           req'[req'[x].chain[i]].st = "chained"
    <3>1. ASSUME NEW x \in Reqs, NEW i \in 1 .. Len(req'[x].chain)
          PROVE  req'[req'[x].chain[i]].st = "chained"
      <4>1. PICK c : c = req'[x].chain[i]
        OBVIOUS
      <4>2. c = r[x].chain[i] /\ i \in 1 .. Len(r[x].chain)
        BY <4>1, <2>3
      <4>3. req[c].st = "chained" /\ c \in Reqs \ {q}
        BY <4>2
      <4> QED BY <4>1, <4>3, <1>6
    <3> QED BY <3>1
  <2>5. ASSUME NEW x \in Reqs, NEW y \in Reqs, NEW i \in 1 .. Len(req'[x].chain),
               NEW j \in 1 .. Len(req'[y].chain), req'[x].chain[i] = req'[y].chain[j]
        PROVE  x = y /\ i = j
    <3>1. /\ i \in 1 .. Len(r[x].chain) /\ j \in 1 .. Len(r[y].chain)
          /\ r[x].chain[i] = r[y].chain[j]
      BY <2>3, <2>5
    <3> QED BY <3>1
  <2> QED BY <2>4, <2>5 DEF ChainInv
<1>17. PendInv'
  <2>1. SUFFICES ASSUME connected
                 PROVE  /\ pend' \in Seq(Reqs)
                        /\ \A i \in 1 .. Len(pend') : req'[pend'[i]].st = "pending"
                        /\ \A i, j \in 1 .. Len(pend') : pend'[i] = pend'[j] => i = j
    BY DEF PendInv
  <2>2. /\ pend \in Seq(Reqs) /\ Len(pend) \in Nat
        /\ \A i \in 1 .. Len(pend) : req[pend[i]].st = "pending" /\ pend[i] \in Reqs
        /\ \A i, j \in 1 .. Len(pend) : pend[i] = pend[j] => i = j
    BY <2>1, LenProperties, ElementOfSeq DEF WriteInv, PendInv
  <2>3. \A i \in 1 .. Len(pend) : pend[i] # q /\ req'[pend[i]].st = "pending"
    BY <2>2, <1>6
  <2>4. CASE UNCHANGED pend
    BY <2>2, <2>3, <2>4
  <2>5. CASE pend' = Append(pend, q) /\ req'[q].st = "pending"
    <3>1. /\ Append(pend, q) \in Seq(Reqs) /\ Len(Append(pend, q)) = Len(pend) + 1
          /\ \A i \in 1 .. Len(pend) + 1 :
                Append(pend, q)[i] = IF i <= Len(pend) THEN pend[i] ELSE q
      BY <2>2, AppendOne
    <3>2. PICK s : s = Append(pend, q)
      OBVIOUS
    <3>3. /\ s \in Seq(Reqs) /\ Len(s) = Len(pend) + 1 /\ pend' = s
          /\ \A i \in 1 .. Len(pend) + 1 :
                s[i] = IF i <= Len(pend) THEN pend[i] ELSE q
      BY <3>1, <3>2, <2>5
    <3>4. \A i \in 1 .. Len(s) : req'[s[i]].st = "pending"
      BY <3>3, <2>2, <2>3, <2>5
    <3>5. \A i, j \in 1 .. Len(s) : s[i] = s[j] => i = j
      <4>1. \A i \in 1 .. Len(pend) : pend[i] # q
        BY <2>3
      <4> QED BY <4>1, <3>2, <2>2, AppendDistinct
    <3> QED BY <3>3, <3>4, <3>5
  <2> QED BY <2>4, <2>5, <1>4, <1>5
<1>18. Biased' <=> Biased
  BY DEF Biased, InSection
<1>19. writectr = Cardinality(Sent) + (IF Biased THEN FUSE_NOWRITE ELSE 0)
  BY DEF WriteInv, WritectrExact
<1>20. /\ writectr' = Cardinality(Sent') + (IF Biased' THEN FUSE_NOWRITE ELSE 0)
       /\ Cardinality(Sent') \in Nat
       /\ asleep' # {} => Cardinality(Sent') # 0
  <2>1. q \notin Sent
    BY DEF Sent
  <2>2. CASE new.st = "pending" /\ writectr' = writectr + 1
    <3>1. Sent' = Sent \cup {q}
      BY <2>2, <1>4, <1>6 DEF Sent
    <3>2. Cardinality(Sent') = Cardinality(Sent) + 1
      BY <3>1, <2>1, Counts, FS_AddElement
    <3> QED BY <3>2, <2>2, <1>18, <1>19, Counts
  <2>3. CASE new = FreeReq /\ UNCHANGED writectr /\ asleep' = {}
    <3>1. Sent' = Sent
      BY <2>3, <1>4, <1>6, <2>1, ReadyToFree DEF Sent
    <3> QED BY <3>1, <2>3, <1>18, <1>19, Counts
  <2> QED BY <2>2, <2>3, <1>5
<1>21. WritectrExact'
  <2>1. th' \in [Threads -> Registers]
    BY <1>7 DEF TypeOK
  <2> QED BY <1>8, <1>20, <2>1, ExactAgain DEF InSection
<1>22. SleepInv'
  <2>1. SUFFICES ASSUME asleep' # {}, NEW t \in asleep'
                 PROVE  \/ th'[t].pc = "waitpage" /\ fuse_page_is_writeback(th[t].page)'
                        \/ th'[t].pc = "waitwrites" /\ writectr' # FUSE_NOWRITE
    BY DEF SleepInv, fuse_page_is_writeback, Span, Num
  <2>2. /\ new.st = "pending" /\ new.idx = req[q].idx /\ new.data = req[q].data
        /\ writepages' = w /\ UNCHANGED asleep
    BY <2>1, <1>5
  <2>3. \A x \in Reqs : req'[x].idx = req[x].idx /\ req'[x].data = req[x].data
    BY <2>2, <1>4, <1>6
  <2>4. \/ th[t].pc = "waitpage" /\ fuse_page_is_writeback(th[t].page)
        \/ th[t].pc = "waitwrites"
    BY <2>2 DEF WriteInv, SleepInv
  <2>5. ASSUME fuse_page_is_writeback(th[t].page)
        PROVE  fuse_page_is_writeback(th[t].page)'
    <3>1. \A x \in writepages : x \in writepages' /\ x \in Reqs
      BY <2>2 DEF WriteInv, TypeOK
    <3> QED BY <2>3, <2>5, <3>1 DEF fuse_page_is_writeback, Span, Num
  <2>6. writectr' # FUSE_NOWRITE
    BY <2>1, <1>20, Counts
  <2> QED BY <2>4, <2>5, <2>6
<1> QED BY <1>7, <1>8, <1>10, <1>12, <1>13, <1>14, <1>15, <1>16, <1>17, <1>21, <1>22
        DEF WriteInv


(***************************************************************************)
(* Steps that fill and queue a request                                     *)
(***************************************************************************)

(* Under fc->lock thread t goes on with the registers s.  It changes its   *)
(* own request, one that was free, or the chain or the contents of another *)
(* one; every other request stays where it is.                             *)
Taken(t, s) ==
    /\ Stepped(t, s) /\ FcLock(t)
    /\ th[t].pc \notin {"waitpage", "waitwrites", "section", "replied"}
    /\ s.pc \notin {"waitwrites", "section", "replied"}
    /\ s.pc = "inplace" => fclock' = t
    /\ UNCHANGED <<connected, isize, cache, ver, writectr, asleep, pend>>
    /\ writepages' \subseteq Reqs /\ queued' \in Seq(Reqs)
    /\ fclock' \in Threads \cup Reqs \cup {None}
    /\ req' \in [Reqs -> Request]
    /\ \A q \in Reqs :
         /\ req[q].st \in InFlight \cup {"queued", "chained"}
            => /\ req'[q].st = req[q].st /\ req'[q].size = req[q].size
               /\ Len(req'[q].data) = Len(req[q].data)
         /\ req'[q].st \in InFlight \cup {"finishing"} => req'[q].st = req[q].st
         /\ req'[q].st = "free" => req'[q] = FreeReq
         /\ req[q].st = "new" /\ q # th[t].req
            => /\ req'[q].st = "new"
               /\ req[q].data = <<>> => req'[q].data = <<>>
    /\ s.req # None => /\ req'[s.req].st = "new"
                       /\ s.req = th[t].req \/ req[s.req].st = "free"

LEMMA TakenKeeps ==
    ASSUME WriteInv, NEW t \in Threads, NEW s, Taken(t, s),
           FillOf(th[t])', QueueInv', ChainInv',
           \A p : fuse_page_is_writeback(p) => fuse_page_is_writeback(p)'
    PROVE  WriteInv'
<1>1. /\ th' \in [Threads -> Registers] /\ MutexInv'
      /\ th'[t] = s /\ \A u \in Threads \ {t} : th'[u] = th[u]
  BY SteppedThread DEF Taken
<1>2. TypeOK'
  BY <1>1 DEF WriteInv, TypeOK, Taken
<1>3. /\ \A u \in Threads \ {t} : th[u].pc # "inplace"
      /\ \A q \in Reqs : req[q].st # "finishing" /\ req'[q].st # "finishing"
  <2>1. FcLock(t) /\ t \in Threads \cup Reqs
    BY DEF Taken
  <2>2. /\ \A u \in Threads \ {t} : th[u].pc # "inplace"
        /\ \A q \in Reqs \ {t} : req[q].st # "finishing"
    BY <2>1, LockKeepsOut
  <2>3. \A q \in Reqs : req[q].st # "finishing"
    BY <2>2
  <2> QED BY <2>2, <2>3 DEF Taken
<1>4. LockInv'
  BY <1>1, <1>3 DEF LockInv, Taken
<1>5. \A u \in Threads : th[u].req \in Reqs \cup {None}
  BY DEF WriteInv, TypeOK, Registers
<1>6. \A u \in Threads \ {t} : th[u].req # None
         => /\ req[th[u].req].st = "new" /\ th[u].req # th[t].req
            /\ th[u].req \in Reqs
  BY <1>5 DEF WriteInv, OwnInv
<1>7. FillInv'
  <2>1. ASSUME NEW u \in Threads \ {t} PROVE FillOf(th[u])'
    <3>1. FillOf(th[u]) /\ th'[u] = th[u] /\ th[u].pc # "inplace"
      BY <1>1, <1>3 DEF WriteInv, FillInv
    <3>2. PICK q : q = th[u].req
      OBVIOUS
    <3>3. q # None => q \in Reqs /\ req[q].st = "new" /\ q # th[t].req
      BY <1>6, <3>2
    <3>4. th[u].pc = "inflight" => q # None /\ req[q].data = <<>>
      BY <3>1, <3>2 DEF FillOf
    <3>5. th[u].pc = "inflight" => req'[q].data = <<>>
      BY <3>3, <3>4 DEF Taken
    <3> QED BY <3>1, <3>2, <3>5 DEF FillOf
  <2> QED BY <2>1 DEF FillInv
<1>8. OwnInv'
  <2>1. \A u \in Threads \ {t} : th[u].req # None
           => req'[th[u].req].st = "new" /\ th[u].req # s.req
    <3>1. ASSUME NEW u \in Threads \ {t}, th[u].req # None
          PROVE  req'[th[u].req].st = "new" /\ th[u].req # s.req
      <4>1. PICK q \in Reqs : q = th[u].req
        BY <3>1, <1>6
      <4>2. req[q].st = "new" /\ q # th[t].req
        BY <4>1, <3>1, <1>6
      <4> QED BY <4>1, <4>2 DEF Taken
    <3> QED BY <3>1
  <2>2. s.req # None => req'[s.req].st = "new"
    BY DEF Taken
  <2>3. \A u \in Threads : th'[u].req # None => req'[th'[u].req].st = "new"
    BY <2>1, <2>2, <1>1
  <2>4. ASSUME NEW u \in Threads, NEW v \in Threads, u # v, th'[u].req # None
        PROVE  th'[u].req # th'[v].req
    <3>1. CASE u = t
      BY <3>1, <2>1, <2>4, <1>1
    <3>2. CASE v = t
      BY <3>2, <2>1, <2>4, <1>1
    <3>3. CASE u # t /\ v # t
      BY <3>3, <2>4, <1>1 DEF WriteInv, OwnInv
    <3> QED BY <3>1, <3>2, <3>3
  <2> QED BY <2>3, <2>4 DEF OwnInv
<1>9. FreeInv'
  <2>1. \A q \in Reqs : req'[q].st \in {"pending", "read"}
           => /\ req[q].st = req'[q].st /\ req'[q].size = req[q].size
              /\ Len(req'[q].data) = Len(req[q].data)
    BY DEF Taken, InFlight
  <2>2. \A q \in Reqs : req'[q].st \in {"pending", "read"}
           => req'[q].size <= Len(req'[q].data)
    BY <2>1 DEF WriteInv, FreeInv, Num
  <2>3. \A q \in Reqs : req'[q].st = "free" => req'[q] = FreeReq
    BY DEF Taken
  <2> QED BY <2>2, <2>3 DEF FreeInv, Num
<1>10. PendInv'
  <2>1. UNCHANGED <<connected, pend>>
    BY DEF Taken
  <2>2. connected => \A i \in 1 .. Len(pend) :
           pend[i] \in Reqs /\ req[pend[i]].st = "pending"
    BY ElementOfSeq DEF WriteInv, PendInv
  <2>3. \A q \in Reqs : req[q].st = "pending" => req'[q].st = "pending"
    BY DEF Taken, InFlight
  <2> QED BY <2>1, <2>2, <2>3 DEF WriteInv, PendInv
<1>11. UNCHANGED <<asleep, writectr>> /\ t \notin asleep
  BY DEF Taken, WriteInv, SleepInv
<1>12. SleepInv'
  <2>1. ASSUME NEW u \in asleep
        PROVE  \/ th'[u].pc = "waitpage" /\ fuse_page_is_writeback(th[u].page)'
               \/ th'[u].pc = "waitwrites" /\ writectr' # FUSE_NOWRITE
    <3>1. u \in Threads \ {t} /\ th'[u] = th[u]
      BY <1>1, <1>11 DEF WriteInv, TypeOK
    <3>2. \/ th[u].pc = "waitpage" /\ fuse_page_is_writeback(th[u].page)
          \/ th[u].pc = "waitwrites" /\ writectr # FUSE_NOWRITE
      BY <1>3 DEF WriteInv, SleepInv
    <3>3. CASE th[u].pc = "waitpage" /\ fuse_page_is_writeback(th[u].page)
      <4>1. PICK p : p = th[u].page
        OBVIOUS
      <4>2. fuse_page_is_writeback(p)'
        BY <4>1, <3>3
      <4> QED BY <4>1, <4>2, <3>1, <3>3 DEF fuse_page_is_writeback, Span, Num
    <3>4. CASE th[u].pc = "waitwrites" /\ writectr # FUSE_NOWRITE
      BY <3>1, <3>4, <1>11
    <3> QED BY <3>2, <3>3, <3>4
  <2> QED BY <2>1, <1>11 DEF SleepInv, fuse_page_is_writeback, Span, Num
<1>13. WritectrExact'
  <2>1. Sent' = Sent
    BY DEF Sent, Taken, InFlight
  <2>2. Biased' <=> Biased
    BY <1>1 DEF Biased, InSection, Taken
  <2>3. \A u \in Threads : th'[u].pc \in {"section", "replied"}
                           => writectr' = FUSE_NOWRITE
    BY <1>1, <1>11 DEF WriteInv, WritectrExact, InSection, Taken
  <2>4. writectr' = Cardinality(Sent') + (IF Biased' THEN FUSE_NOWRITE ELSE 0)
    BY <2>1, <2>2, <1>11 DEF WriteInv, WritectrExact
  <2> QED BY <2>1, <2>3, <2>4, <1>1, Counts, ExactAgain
<1> QED BY <1>1, <1>2, <1>4, <1>7, <1>8, <1>9, <1>10, <1>12, <1>13 DEF WriteInv

(* The queue is as it was, or one request joins it.                        *)
LEMMA TakenQueue ==
    ASSUME WriteInv, NEW t \in Threads, NEW s, Taken(t, s),
           \/ UNCHANGED queued
           \/ \E q \in Reqs : /\ queued' = Append(queued, q)
                              /\ req[q].st # "queued" /\ req'[q].st = "queued"
    PROVE  QueueInv'
<1>1. /\ queued \in Seq(Reqs) /\ Len(queued) \in Nat
      /\ \A i \in 1 .. Len(queued) : queued[i] \in Reqs /\ req[queued[i]].st = "queued"
      /\ \A i, j \in 1 .. Len(queued) : queued[i] = queued[j] => i = j
  BY LenProperties, ElementOfSeq DEF WriteInv, TypeOK, QueueInv
<1>2. \A q \in Reqs : req[q].st = "queued" => req'[q].st = "queued"
  BY DEF Taken
<1>3. \A i \in 1 .. Len(queued) : req'[queued[i]].st = "queued"
  BY <1>1, <1>2
<1>4. CASE UNCHANGED queued
  BY <1>1, <1>3, <1>4 DEF QueueInv
<1>5. ASSUME NEW q \in Reqs, queued' = Append(queued, q), req[q].st # "queued",
             req'[q].st = "queued"
      PROVE  QueueInv'
  <2>1. \A i \in 1 .. Len(queued) : queued[i] # q
    BY <1>1, <1>5
  <2>2. /\ Len(queued') = Len(queued) + 1
        /\ \A i \in 1 .. Len(queued) + 1 :
              queued'[i] = IF i <= Len(queued) THEN queued[i] ELSE q
    BY <1>1, <1>5, AppendOne
  <2>3. \A i, j \in 1 .. Len(queued') : queued'[i] = queued'[j] => i = j
    BY <1>1, <1>5, <2>1, AppendDistinct
  <2>4. ASSUME NEW i \in 1 .. Len(queued') PROVE req'[queued'[i]].st = "queued"
    <3>1. \/ i \in 1 .. Len(queued) /\ queued'[i] = queued[i]
          \/ queued'[i] = q
      BY <1>1, <2>2
    <3> QED BY <3>1, <1>3, <1>5
  <2> QED BY <2>3, <2>4 DEF QueueInv
<1> QED BY <1>4, <1>5

(* The chains are as they were, but for requests that have none.           *)
LEMMA TakenChains ==
    ASSUME WriteInv, NEW t \in Threads, NEW s, Taken(t, s),
           \A q \in Reqs : req'[q].chain = req[q].chain \/ Len(req'[q].chain) = 0
    PROVE  ChainInv'
<1>1. \A q \in Reqs : req[q].st = "chained" => req'[q].st = "chained"
  BY DEF Taken
<1>2. \A q \in Reqs : \A i \in 1 .. Len(req[q].chain) :
         req[q].chain[i] \in Reqs /\ req[req[q].chain[i]].st = "chained"
  BY ElementOfSeq DEF WriteInv, TypeOK, Request, ChainInv
<1>3. ASSUME NEW q \in Reqs, NEW i \in 1 .. Len(req'[q].chain)
      PROVE  req'[q].chain = req[q].chain
  <2>1. Len(req'[q].chain) # 0
    BY <1>3
  <2> QED BY <2>1
<1>4. ASSUME NEW q \in Reqs, NEW i \in 1 .. Len(req'[q].chain)
      PROVE  req'[req'[q].chain[i]].st = "chained"
  BY <1>1, <1>2, <1>3
<1>5. ASSUME NEW q \in Reqs, NEW r \in Reqs, NEW i \in 1 .. Len(req'[q].chain),
             NEW j \in 1 .. Len(req'[r].chain), req'[q].chain[i] = req'[r].chain[j]
      PROVE  q = r /\ i = j
  <2>1. req'[q].chain = req[q].chain /\ req'[r].chain = req[r].chain
    BY <1>3
  <2> QED BY <2>1, <1>5 DEF WriteInv, ChainInv
<1> QED BY <1>4, <1>5 DEF ChainInv

(* A page stays under writeback while the requests that hold pages stay on *)
(* the list.                                                               *)
LEMMA StillListed ==
    ASSUME WriteInv, req' \in [Reqs -> Request],
           \A q \in writepages : req[q].data = <<>> \/
               /\ q \in writepages' /\ req'[q].idx = req[q].idx
               /\ Len(req'[q].data) >= Len(req[q].data)
    PROVE  \A p : fuse_page_is_writeback(p) => fuse_page_is_writeback(p)'
<1>1. ASSUME NEW p, fuse_page_is_writeback(p) PROVE fuse_page_is_writeback(p)'
  <2>1. PICK q \in writepages : p \in Span(q)
    BY <1>1 DEF fuse_page_is_writeback
  <2>2. q \in Reqs /\ req[q] \in Request /\ req'[q] \in Request
    BY DEF WriteInv, TypeOK
  <2>3. req[q].idx \in Nat /\ Len(req[q].data) \in Nat /\ Len(req'[q].data) \in Nat
    BY SMTT(30), <2>2, LenProperties DEF Request
  <2>4. Len(req[q].data) # 0
    BY <2>1, <2>3 DEF Span, Num
  <2>5. req[q].data # <<>>
    BY <2>4, EmptySeq
  <2>6. /\ q \in writepages' /\ req'[q].idx = req[q].idx
        /\ Len(req'[q].data) >= Len(req[q].data)
    BY <2>5
  <2>7. p \in req'[q].idx .. req'[q].idx + Len(req'[q].data) - 1
    <3>1. PICK a \in Nat, n \in Nat, m \in Nat :
             a = req[q].idx /\ n = Len(req[q].data) /\ m = Len(req'[q].data)
      BY <2>3
    <3>2. p \in a .. a + n - 1 /\ m >= n
      BY <2>1, <2>6, <3>1 DEF Span, Num
    <3>3. p \in a .. a + m - 1
      BY <3>2
    <3> QED BY <3>1, <3>3, <2>6
  <2> QED BY <2>6, <2>7 DEF fuse_page_is_writeback, Span, Num
<1> QED BY <1>1

(* What thread t may do next, from what the step leaves unchanged.         *)
LEMMA OwnRequest ==
    ASSUME WriteInv, NEW t \in Threads, th[t].req # None
    PROVE  th[t].req \in Reqs /\ req[th[t].req].st = "new"
  BY DEF WriteInv, TypeOK, Registers, OwnInv

LEMMA By_fill_alloc ==
    ASSUME WriteInv, NEW t \in Threads, fill_alloc(t) PROVE WriteInv'
<1>0. PICK r \in Registers : r = th[t]
  BY DEF WriteInv, TypeOK
<1>a. r.pc = "alloc" /\ FcLock(t) /\ MutexOf(t, r, ilock) /\ FillOf(r)
  BY <1>0 DEF fill_alloc, WriteInv, MutexInv, FillInv
<1>3. UNCHANGED <<connected, ilock, isize, cache, ver, queued, writectr, asleep,
                  pend, fclock>>
  BY DEF fill_alloc, inodeVars, pageVars, dataVars
<1>b. fclock' \in Threads \cup Reqs \cup {None} /\ queued' \in Seq(Reqs)
  BY <1>3 DEF WriteInv, TypeOK
<1>4. CASE r.req # None
  <2> DEFINE s == [r EXCEPT !.pc = "count", !.pages = @ \cup {r.page}]
  <2>1. /\ s \in Registers /\ s.pc = "count" /\ s.req = r.req
        /\ s.op = r.op /\ s.after = r.after
    BY DEF Registers, PC
  <2>2. th' = [th EXCEPT ![t] = s]
    <3>1. ~r.isw
      BY <1>4, <1>a DEF FillOf, Registers
    <3> QED BY <1>0, <1>4, <3>1 DEF fill_alloc, WriteInv, TypeOK
  <2> HIDE DEF s
  <2>3. UNCHANGED <<req, writepages>>
    BY <1>0, <1>4 DEF fill_alloc
  <2>4. Stepped(t, s)
    BY <2>1, <2>2, <1>3, <1>a DEF Stepped, MutexOf, Holding, Ending
  <2>5. r.req \in Reqs /\ req[r.req].st = "new"
    BY <1>0, <1>4, OwnRequest
  <2>6. \A q \in Reqs : req'[q] = req[q]
    BY <2>3
  <2>7. Taken(t, s)
    BY <2>1, <2>3, <2>4, <2>5, <1>0, <1>3, <1>a, <1>b
       DEF Taken, WriteInv, TypeOK, FreeInv
  <2>8. FillOf(th[t])'
    BY <2>1, <2>2, <1>4 DEF FillOf, WriteInv, TypeOK
  <2>9. QueueInv' /\ ChainInv'
    BY <2>3, <2>7, <1>3, TakenQueue, TakenChains
  <2>10. \A p : fuse_page_is_writeback(p) => fuse_page_is_writeback(p)'
    BY <2>3 DEF fuse_page_is_writeback, Span, Num
  <2> QED BY <2>7, <2>8, <2>9, <2>10, TakenKeeps
<1>5. CASE r.req = None
  <2>1. PICK q \in Reqs :
          /\ req[q].st = "free"
          /\ req' = [req EXCEPT ![q].st = "new", ![q].idx = r.page]
          /\ writepages' = writepages \cup {q}
          /\ th' = [[th EXCEPT ![t].pc = IF r.isw THEN "inflight" ELSE "count",
                               ![t].pages = @ \cup {r.page}] EXCEPT ![t].req = q]
    BY <1>0, <1>5 DEF fill_alloc
  <2> DEFINE s == [r EXCEPT !.pc = IF r.isw THEN "inflight" ELSE "count",
                            !.pages = @ \cup {r.page}, !.req = q]
             x == [req[q] EXCEPT !.st = "new", !.idx = r.page]
  <2>2. /\ s \in Registers /\ s.pc \in {"inflight", "count"} /\ s.req = q
        /\ s.op = r.op /\ s.after = r.after
    BY ZenonT(30) DEF Registers, PC
  <2>3. th' = [th EXCEPT ![t] = s]
    BY <1>0, <2>1 DEF WriteInv, TypeOK
  <2>4. req[q] \in Request /\ req[q].data = <<>> /\ Len(req[q].chain) = 0
    BY <2>1, ReadyToFree DEF WriteInv, TypeOK, FreeInv
  <2>5. /\ x \in Request /\ x.st = "new" /\ x.data = <<>> /\ Len(x.chain) = 0
    BY <2>4 DEF Request, Status, Registers
  <2>6. req' = [req EXCEPT ![q] = x]
    BY <2>1, <2>4 DEF WriteInv, TypeOK
  <2> HIDE DEF s, x
  <2>7. /\ req' \in [Reqs -> Request] /\ req'[q] = x
        /\ \A y \in Reqs \ {q} : req'[y] = req[y]
    BY <2>5, <2>6 DEF WriteInv, TypeOK
  <2>8. Stepped(t, s)
    BY <2>2, <2>3, <1>3, <1>a DEF Stepped, MutexOf, Holding, Ending
  <2>9. Taken(t, s)
    <3>1. \A y \in Reqs :
         /\ req[y].st \in InFlight \cup {"queued", "chained"}
            => /\ req'[y].st = req[y].st /\ req'[y].size = req[y].size
               /\ Len(req'[y].data) = Len(req[y].data)
         /\ req'[y].st \in InFlight \cup {"finishing"} => req'[y].st = req[y].st
         /\ req'[y].st = "free" => req'[y] = FreeReq
         /\ req[y].st = "new" /\ y # th[t].req
            => /\ req'[y].st = "new"
               /\ req[y].data = <<>> => req'[y].data = <<>>
      BY <2>1, <2>5, <2>7 DEF InFlight, WriteInv, FreeInv
    <3>2. writepages' \subseteq Reqs
      BY <2>1 DEF WriteInv, TypeOK
    <3>3. s.req # None => req'[s.req].st = "new" /\ req[s.req].st = "free"
      BY <2>1, <2>2, <2>5, <2>7
    <3> QED BY <3>1, <3>2, <3>3, <2>2, <2>7, <2>8, <1>0, <1>3, <1>a, <1>b DEF Taken
  <2>10. FillOf(th[t])'
    <3>1. th'[t] = s
      BY <2>3 DEF WriteInv, TypeOK
    <3>2. req'[s.req].data = <<>> /\ s.req # None
      BY <2>2, <2>5, <2>7
    <3> QED BY <3>1, <3>2, <2>2 DEF FillOf
  <2>11. QueueInv' /\ ChainInv'
    <3>1. \A y \in Reqs : req'[y].chain = req[y].chain \/ Len(req'[y].chain) = 0
      BY <2>5, <2>7
    <3> QED BY <3>1, <2>9, <1>3, TakenQueue, TakenChains
  <2>12. \A p : fuse_page_is_writeback(p) => fuse_page_is_writeback(p)'
    <3>1. \A y \in writepages : req[y].data = <<>> \/
               /\ y \in writepages' /\ req'[y].idx = req[y].idx
               /\ Len(req'[y].data) >= Len(req[y].data)
      <4>1. ASSUME NEW y \in writepages, req[y].data # <<>>
            PROVE  /\ y \in writepages' /\ req'[y].idx = req[y].idx
                   /\ Len(req'[y].data) >= Len(req[y].data)
        <5>1. y \in Reqs \ {q} /\ Len(req[y].data) \in Nat
          BY <4>1, <2>4, LenProperties DEF WriteInv, TypeOK, Request
        <5> QED BY <5>1, <2>1, <2>7
      <4> QED BY <4>1
    <3> QED BY <3>1, <2>7, StillListed
  <2> QED BY <2>9, <2>10, <2>11, <2>12, TakenKeeps
<1> QED BY <1>4, <1>5

LEMMA By_fill_count ==
    ASSUME WriteInv, NEW t \in Threads, fill_count(t) PROVE WriteInv'
<1>0. PICK r \in Registers : r = th[t]
  BY DEF WriteInv, TypeOK
<1>a. r.pc = "count" /\ FcLock(t) /\ MutexOf(t, r, ilock) /\ FillOf(r)
  BY <1>0 DEF fill_count, WriteInv, MutexInv, FillInv
<1>1. PICK q \in Reqs : q = r.req /\ req[q].st = "new"
  BY <1>0, <1>a, OwnRequest DEF FillOf
<1>2. UNCHANGED <<connected, ilock, isize, cache, ver, queued, writepages, writectr,
                  asleep, pend, fclock>>
  BY DEF fill_count, inodeVars, dataVars, listVars
<1>3. PICK c \in Nat : c = cache[r.page]
  BY DEF WriteInv, TypeOK, Registers
<1> DEFINE s == [r EXCEPT !.pc = "scan", !.cur = r.page + 1, !.page = 0,
                          !.isw = FALSE]
           d == Append(req[q].data, c)
           x == [req[q] EXCEPT !.data = d]
<1>4. /\ s \in Registers /\ s.pc = "scan" /\ s.req = q
      /\ s.op = r.op /\ s.after = r.after
  <2>1. r.page + 1 \in Nat /\ 0 \in Pages
    BY DEF Registers
  <2>2. PICK n \in Nat : n = r.page + 1
    BY <2>1
  <2>3. s = [r EXCEPT !.pc = "scan", !.cur = n, !.page = 0, !.isw = FALSE]
    BY <2>2
  <2> QED BY <2>1, <2>3, <1>1 DEF Registers, PC
<1>5. th' = [th EXCEPT ![t] = s]
  BY <1>0 DEF fill_count, WriteInv, TypeOK
<1>6. req[q] \in Request /\ req[q].data \in Seq(Nat) /\ Len(req[q].data) \in Nat
  BY LenProperties DEF WriteInv, TypeOK, Request
<1>7. d \in Seq(Nat) /\ Len(d) = Len(req[q].data) + 1
  BY <1>6, AppendOne
<1>8. req' = [req EXCEPT ![q] = x]
  BY <1>0, <1>1, <1>3, <1>6 DEF fill_count, WriteInv, TypeOK
<1> HIDE DEF s, d
<1>9. /\ x \in Request /\ x.st = "new" /\ x.data = d /\ x.chain = req[q].chain
      /\ x.idx = req[q].idx
  BY <1>1, <1>6, <1>7 DEF Request
<1> HIDE DEF x
<1>10. /\ req' \in [Reqs -> Request] /\ req'[q] = x
       /\ \A y \in Reqs \ {q} : req'[y] = req[y]
  BY <1>8, <1>9 DEF WriteInv, TypeOK
<1>11. Stepped(t, s)
  BY <1>4, <1>5, <1>2, <1>a DEF Stepped, MutexOf, Holding, Ending
<1>12. Taken(t, s)
  <2>1. \A y \in Reqs :
         /\ req[y].st \in InFlight \cup {"queued", "chained"}
            => /\ req'[y].st = req[y].st /\ req'[y].size = req[y].size
               /\ Len(req'[y].data) = Len(req[y].data)
         /\ req'[y].st \in InFlight \cup {"finishing"} => req'[y].st = req[y].st
         /\ req'[y].st = "free" => req'[y] = FreeReq
         /\ req[y].st = "new" /\ y # th[t].req
            => /\ req'[y].st = "new"
               /\ req[y].data = <<>> => req'[y].data = <<>>
    BY <1>0, <1>1, <1>9, <1>10 DEF InFlight, WriteInv, FreeInv
  <2>2. s.req = th[t].req /\ req'[s.req].st = "new"
    BY <1>0, <1>1, <1>4, <1>9, <1>10
  <2>3. /\ fclock' \in Threads \cup Reqs \cup {None} /\ queued' \in Seq(Reqs)
        /\ writepages' \subseteq Reqs
    BY <1>2 DEF WriteInv, TypeOK
  <2> QED BY <2>1, <2>2, <2>3, <1>0, <1>a, <1>2, <1>4, <1>10, <1>11 DEF Taken
<1>13. FillOf(th[t])'
  <2>1. th'[t] = s
    BY <1>5 DEF WriteInv, TypeOK
  <2> QED BY <2>1, <1>4 DEF FillOf
<1>14. QueueInv' /\ ChainInv'
  <2>1. \A y \in Reqs : req'[y].chain = req[y].chain
    BY <1>9, <1>10
  <2> QED BY <2>1, <1>12, <1>2, TakenQueue, TakenChains
<1>15. \A p : fuse_page_is_writeback(p) => fuse_page_is_writeback(p)'
  <2>1. ASSUME NEW y \in writepages
        PROVE  /\ y \in writepages' /\ req'[y].idx = req[y].idx
               /\ Len(req'[y].data) >= Len(req[y].data)
    <3>1. y \in Reqs /\ Len(req[y].data) \in Nat
      BY LenProperties DEF WriteInv, TypeOK, Request
    <3>2. CASE y = q
      BY <3>2, <1>2, <1>6, <1>7, <1>9, <1>10
    <3>3. CASE y # q
      BY <3>1, <3>3, <1>2, <1>10
    <3> QED BY <3>2, <3>3
  <2> QED BY <2>1, <1>10, StillListed
<1> QED BY <1>12, <1>13, <1>14, <1>15, TakenKeeps

(* A request in flight took the page of thread t, which goes on scanning.  *)
LEMMA FilledThread ==
    ASSUME WriteInv, NEW t \in Threads, filled(t), UNCHANGED ilock
    PROVE  \E s : /\ Stepped(t, s) /\ s.pc = "scan" /\ s.req = None
                  /\ th' \in [Threads -> Registers] /\ th'[t] = s
<1>0. PICK r \in Registers : r = th[t] /\ MutexOf(t, r, ilock)
  BY DEF WriteInv, TypeOK, MutexInv
<1>1. PICK n \in Nat : n = r.page + 1
  BY DEF Registers
<1> DEFINE s == [r EXCEPT !.pc = "scan", !.cur = n, !.page = 0, !.pages = {},
                          !.req = None, !.isw = FALSE, !.old = None]
<1>2. /\ s \in Registers /\ s.pc = "scan" /\ s.req = None
      /\ s.op = r.op /\ s.after = r.after
  <2>1. 0 \in Pages
    OBVIOUS
  <2> QED BY <2>1 DEF Registers, PC
<1>3. th' = [th EXCEPT ![t] = s]
  BY <1>0, <1>1 DEF filled, WriteInv, TypeOK
<1> HIDE DEF s
<1>4. Stepped(t, s)
  BY <1>0, <1>2, <1>3 DEF Stepped, MutexOf, Holding, Ending
<1> QED BY <1>2, <1>4, SteppedThread

(* The carrier of a page is the listed request or one that is chained to   *)
(* it, and never a request that a thread is about to fill.                 *)
LEMMA CarrierIsThere ==
    ASSUME WriteInv, NEW q \in Reqs, NEW p \in Pages
    PROVE  /\ Carrier(q, p) \in 1 .. Len(req[q].chain) + 1
           /\ (<<q>> \o req[q].chain)[Carrier(q, p)] \in Reqs
           /\ \/ (<<q>> \o req[q].chain)[Carrier(q, p)] = q
              \/ req[(<<q>> \o req[q].chain)[Carrier(q, p)]].st = "chained"
<1>1. PICK c \in Seq(Reqs) : c = req[q].chain
  BY DEF WriteInv, TypeOK, Request
<1>2. PICK list : list = <<q>> \o c
  OBVIOUS
<1>3. /\ Len(c) \in Nat
      /\ \A i \in 1 .. Len(c) : c[i] \in Reqs /\ req[c[i]].st = "chained"
  BY <1>1, LenProperties, ElementOfSeq DEF WriteInv, ChainInv
<1>4. /\ Len(list) = Len(c) + 1
      /\ \A i \in 1 .. Len(c) + 1 : list[i] = IF i <= 1 THEN q ELSE c[i - 1]
  <2>1. <<q>> \in Seq(Reqs) /\ Len(<<q>>) = 1 /\ <<q>>[1] = q
    OBVIOUS
  <2>2. /\ Len(<<q>> \o c) = Len(<<q>>) + Len(c)
        /\ \A i \in 1 .. Len(<<q>>) + Len(c) : (<<q>> \o c)[i] =
              IF i <= Len(<<q>>) THEN <<q>>[i] ELSE c[i - Len(<<q>>)]
    BY <2>1, ConcatProperties
  <2>3. 1 + Len(c) = Len(c) + 1
    BY <1>3
  <2>4. \A i \in 1 .. Len(c) + 1 : list[i] = IF i <= 1 THEN <<q>>[i] ELSE c[i - 1]
    BY <2>1, <2>2, <2>3, <1>2
  <2> QED BY <2>1, <2>2, <2>3, <2>4, <1>2, <1>3
<1>5. Carrier(q, p) \in 1 .. Len(c) + 1
  <2> DEFINE same == {i \in 1 .. Len(list) : Num(list[i]) = 1 /\ req[list[i]].idx = p}
  <2>1. Carrier(q, p) = IF same = {} THEN 1 ELSE Max(same)
    BY <1>1, <1>2 DEF Carrier
  <2>2. same \subseteq 1 .. Len(c) + 1 /\ same \in SUBSET (0 .. Len(c) + 1)
    BY <1>3, <1>4
  <2> HIDE DEF same
  <2>3. Len(c) + 1 \in Nat
    BY <1>3
  <2>4. same # {} => Max(same) \in same
    BY <2>2, <2>3, GreatestElement
  <2>5. 1 \in 1 .. Len(c) + 1
    BY <1>3
  <2> QED BY <2>1, <2>2, <2>4, <2>5
<1>6. PICK i : i = Carrier(q, p)
  OBVIOUS
<1>7. i \in 1 .. Len(c) + 1
  BY <1>5, <1>6
<1>8. CASE i <= 1
  <2>1. list[i] = q
    BY <1>4, <1>7, <1>8
  <2> QED BY <2>1, <1>1, <1>2, <1>6, <1>7
<1>9. CASE ~(i <= 1)
  <2>1. i - 1 \in 1 .. Len(c) /\ list[i] = c[i - 1]
    BY <1>3, <1>4, <1>7, <1>9
  <2>2. list[i] \in Reqs /\ req[list[i]].st = "chained"
    BY <2>1, <1>3
  <2> QED BY <2>2, <1>1, <1>2, <1>6, <1>7
<1> QED BY <1>8, <1>9

LEMMA By_fuse_writepage_in_flight ==
    ASSUME WriteInv, NEW t \in Threads, fuse_writepage_in_flight(t) PROVE WriteInv'
<1>0. PICK r \in Registers : r = th[t]
  BY DEF WriteInv, TypeOK
<1>a. r.pc = "inflight" /\ FcLock(t) /\ MutexOf(t, r, ilock) /\ FillOf(r)
  BY <1>0 DEF fuse_writepage_in_flight, WriteInv, MutexInv, FillInv
<1>1. PICK new \in Reqs : new = r.req /\ req[new].st = "new" /\ req[new].data = <<>>
  BY <1>0, <1>a, OwnRequest DEF FillOf
<1>2. UNCHANGED <<connected, ilock, isize, cache, ver, queued, writectr, asleep, pend>>
  BY DEF fuse_writepage_in_flight, inodeVars, dataVars
<1>3. PICK p \in Pages : p = r.page
  BY DEF Registers
<1>4. queued' \in Seq(Reqs)
  BY <1>2 DEF WriteInv, TypeOK
<1>5. CASE Goto(t, "count") /\ UNCHANGED <<writepages, req, fclock>>
  <2> DEFINE s == [r EXCEPT !.pc = "count"]
  <2>1. /\ s \in Registers /\ s.pc = "count" /\ s.req = new
        /\ s.op = r.op /\ s.after = r.after
    BY <1>1 DEF Registers, PC
  <2>2. th' = [th EXCEPT ![t] = s]
    BY <1>0, <1>5 DEF Goto, WriteInv, TypeOK
  <2> HIDE DEF s
  <2>3. Stepped(t, s)
    BY <2>1, <2>2, <1>2, <1>a DEF Stepped, MutexOf, Holding, Ending
  <2>4. Taken(t, s)
    BY <2>1, <2>3, <1>0, <1>1, <1>2, <1>4, <1>5, <1>a
       DEF Taken, WriteInv, TypeOK, FreeInv
  <2>5. FillOf(th[t])'
    BY <2>1, <2>2 DEF FillOf, WriteInv, TypeOK
  <2>6. QueueInv' /\ ChainInv'
    BY <2>4, <1>2, <1>5, TakenQueue, TakenChains
  <2>7. \A x : fuse_page_is_writeback(x) => fuse_page_is_writeback(x)'
    BY <1>5 DEF fuse_page_is_writeback, Span, Num
  <2> QED BY <2>4, <2>5, <2>6, <2>7, TakenKeeps
<1>6. ASSUME NEW q \in writepages \ {new}, p \in Span(q),
             writepages' = writepages \ {new},
             NEW i, i = Carrier(q, p), NEW old, old = (<<q>> \o req[q].chain)[i],
             \/ /\ Num(old) = 1
                /\ th' = [th EXCEPT ![t].pc = "inplace", ![t].old = old]
                /\ fclock' = t /\ UNCHANGED req
             \/ /\ req' = [req EXCEPT
                      ![new].st = "chained", ![new].data = <<cache[p]>>,
                      ![q].chain = SubSeq(@, 1, i - 1) \o <<new>>
                                      \o SubSeq(@, i, Len(@))]
                /\ filled(t) /\ UNCHANGED fclock
      PROVE  WriteInv'
  <2>1. q \in Reqs /\ req[q] \in Request /\ req[new] \in Request
    BY DEF WriteInv, TypeOK
  <2>2. /\ i \in 1 .. Len(req[q].chain) + 1 /\ old \in Reqs
        /\ old = q \/ req[old].st = "chained"
    BY <2>1, <1>6, CarrierIsThere
  <2>3. writepages' \subseteq Reqs
    BY <1>6 DEF WriteInv, TypeOK
  <2>4. CASE /\ Num(old) = 1
             /\ th' = [th EXCEPT ![t].pc = "inplace", ![t].old = old]
             /\ fclock' = t /\ UNCHANGED req
    <3> DEFINE s == [r EXCEPT !.pc = "inplace", !.old = old]
    <3>1. /\ s \in Registers /\ s.pc = "inplace" /\ s.req = new
          /\ s.op = r.op /\ s.after = r.after /\ s.old = old
      BY <1>1, <2>2 DEF Registers, PC
    <3>2. th' = [th EXCEPT ![t] = s]
      BY <1>0, <2>4 DEF WriteInv, TypeOK
    <3> HIDE DEF s
    <3>3. Stepped(t, s)
      BY <3>1, <3>2, <1>2, <1>a DEF Stepped, MutexOf, Holding, Ending
    <3>4. Taken(t, s)
      BY <3>1, <3>3, <2>3, <2>4, <1>0, <1>1, <1>2, <1>4, <1>a
         DEF Taken, WriteInv, TypeOK, FreeInv
    <3>5. FillOf(th[t])'
      <4>1. old # new
        BY <2>2, <1>1
      <4>2. th'[t] = s
        BY <3>2 DEF WriteInv, TypeOK
      <4> QED BY <3>1, <4>1, <4>2, <2>2, <2>4, <1>1 DEF FillOf, Num
    <3>6. QueueInv' /\ ChainInv'
      BY <3>4, <1>2, <2>4, TakenQueue, TakenChains
    <3>7. \A x : fuse_page_is_writeback(x) => fuse_page_is_writeback(x)'
      <4>1. ASSUME NEW y \in writepages, req[y].data # <<>>
            PROVE  /\ y \in writepages' /\ req'[y].idx = req[y].idx
                   /\ Len(req'[y].data) >= Len(req[y].data)
        <5>1. y \in Reqs \ {new} /\ Len(req[y].data) \in Nat
          BY <4>1, <1>1, LenProperties DEF WriteInv, TypeOK, Request
        <5> QED BY <5>1, <1>6, <2>4
      <4>2. req' \in [Reqs -> Request]
        BY <2>4 DEF WriteInv, TypeOK
      <4> QED BY <4>1, <4>2, StillListed
    <3> QED BY <3>4, <3>5, <3>6, <3>7, TakenKeeps
  <2>5. CASE /\ req' = [req EXCEPT
                      ![new].st = "chained", ![new].data = <<cache[p]>>,
                      ![q].chain = SubSeq(@, 1, i - 1) \o <<new>>
                                      \o SubSeq(@, i, Len(@))]
             /\ filled(t) /\ UNCHANGED fclock
    <3>1. PICK s : /\ Stepped(t, s) /\ s.pc = "scan" /\ s.req = None
                   /\ th' \in [Threads -> Registers] /\ th'[t] = s
      BY <2>5, <1>2, FilledThread
    <3>2. PICK d \in Seq(Nat) : d = <<cache[p]>> /\ Len(d) = 1
      <4>1. PICK v \in Nat : v = cache[p]
        BY DEF WriteInv, TypeOK
      <4>2. <<v>> \in Seq(Nat) /\ Len(<<v>>) = 1
        OBVIOUS
      <4> QED BY <4>1, <4>2
    <3>3. PICK c : c = Insert(req[q].chain, i, new)
      OBVIOUS
    <3>4. /\ req[q].chain \in Seq(Reqs) /\ Len(req[q].chain) \in Nat
          /\ \A k \in 1 .. Len(req[q].chain) : req[q].chain[k] # new
          /\ \A k, m \in 1 .. Len(req[q].chain) :
                req[q].chain[k] = req[q].chain[m] => k = m
      <4>1. req[q].chain \in Seq(Reqs)
        BY <2>1 DEF Request
      <4> QED BY <4>1, <2>1, <1>1, LenProperties DEF WriteInv, ChainInv
    <3>5. /\ c \in Seq(Reqs) /\ Len(c) = Len(req[q].chain) + 1
          /\ \A k \in 1 .. Len(c) :
                c[k] = new \/ \E m \in 1 .. Len(req[q].chain) : c[k] = req[q].chain[m]
          /\ \A k, m \in 1 .. Len(c) : c[k] = c[m] => k = m
      <4>1. c \in Seq(Reqs) /\ Len(c) = Len(req[q].chain) + 1
        <5>1. PICK h \in Seq(Reqs) : h = req[q].chain
          BY <3>4
        <5>2. Insert(h, i, new) \in Seq(Reqs) /\ Inserted(Insert(h, i, new), h, i, new)
          BY <5>1, <2>2, InsertOne
        <5>3. c = Insert(h, i, new)
          BY <5>1, <3>3
        <5>4. c \in Seq(Reqs) /\ Inserted(c, h, i, new)
          BY <5>2, <5>3
        <5> QED BY <5>1, <5>4 DEF Inserted
      <4>2. /\ \A k \in 1 .. Len(c) :
                  c[k] = new \/ \E m \in 1 .. Len(req[q].chain) : c[k] = req[q].chain[m]
            /\ \A k, m \in 1 .. Len(c) : c[k] = c[m] => k = m
        <5>1. PICK h \in Seq(Reqs) : h = req[q].chain
          BY <3>4
        <5>2. /\ i \in 1 .. Len(h) + 1 /\ \A k \in 1 .. Len(h) : h[k] # new
              /\ \A k, m \in 1 .. Len(h) : h[k] = h[m] => k = m
          BY <5>1, <3>4, <2>2
        <5>3. Joined(Insert(h, i, new), h, new)
          BY <5>2, InsertDistinct
        <5>4. c = Insert(h, i, new)
          BY <5>1, <3>3
        <5>5. Joined(c, h, new)
          BY <5>3, <5>4
        <5> QED BY <5>1, <5>5 DEF Joined
      <4> QED BY <4>1, <4>2
    <3> DEFINE x == [req[new] EXCEPT !.st = "chained", !.data = d]
               y == [req[q] EXCEPT !.chain = c]
    <3>6. /\ x \in Request /\ x.st = "chained" /\ x.data = d
          /\ x.chain = req[new].chain
      BY <2>1, <3>2 DEF Request, Status
    <3>7. /\ y \in Request /\ y.st = req[q].st /\ y.data = req[q].data
          /\ y.chain = c /\ y.idx = req[q].idx /\ y.size = req[q].size
      BY <2>1, <3>5 DEF Request
    <3>8. req' = [req EXCEPT ![new] = x, ![q] = y]
      <4>1. q # new
        OBVIOUS
      <4>2. req \in [Reqs -> Request]
        BY DEF WriteInv, TypeOK
      <4> QED BY <4>1, <4>2, <2>1, <2>5, <3>2, <3>3 DEF Insert
    <3> HIDE DEF x, y
    <3>9. /\ req' \in [Reqs -> Request] /\ req'[new] = x /\ req'[q] = y
          /\ \A z \in Reqs \ {new, q} : req'[z] = req[z]
      BY <3>6, <3>7, <3>8, <2>1 DEF WriteInv, TypeOK
    <3>10. req[q].st # "free"
      <4>1. ASSUME req[q].st = "free" PROVE FALSE
        <5>1. Num(q) = 0 /\ req[q].idx \in Nat
          BY <4>1, <2>1, ReadyToFree, EmptySeq DEF WriteInv, FreeInv, Num, Request
        <5> QED BY <5>1, <1>6 DEF Span
      <4> QED BY <4>1
    <3>11. Taken(t, s)
      <4>1. \A z \in Reqs :
           /\ req[z].st \in InFlight \cup {"queued", "chained"}
              => /\ req'[z].st = req[z].st /\ req'[z].size = req[z].size
                 /\ Len(req'[z].data) = Len(req[z].data)
           /\ req'[z].st \in InFlight \cup {"finishing"} => req'[z].st = req[z].st
           /\ req'[z].st = "free" => req'[z] = FreeReq
           /\ req[z].st = "new" /\ z # th[t].req
              => /\ req'[z].st = "new"
                 /\ req[z].data = <<>> => req'[z].data = <<>>
        <5>1. ASSUME NEW z \in Reqs \ {new, q} PROVE req'[z] = req[z]
          BY <3>9
        <5>2. /\ req'[new].st = "chained" /\ req[new].st = "new" /\ new = th[t].req
          BY <3>6, <3>9, <1>0, <1>1
        <5>3. /\ req'[q].st = req[q].st /\ req'[q].data = req[q].data
              /\ req'[q].size = req[q].size
          BY <3>7, <3>9
        <5> QED BY <5>1, <5>2, <5>3, <3>10 DEF InFlight, WriteInv, FreeInv
      <4>2. fclock' \in Threads \cup Reqs \cup {None}
        BY <2>5 DEF WriteInv, TypeOK
      <4> QED BY <4>1, <4>2, <3>1, <3>9, <2>3, <1>0, <1>2, <1>4, <1>a DEF Taken
    <3>12. FillOf(th[t])'
      BY <3>1 DEF FillOf
    <3>13. QueueInv'
      BY <3>11, <1>2, TakenQueue
    <3>14. \A z \in Reqs \ {q} : req'[z].chain = req[z].chain
      BY <3>6, <3>9
    <3>15. req'[q].chain = c
      BY <3>7, <3>9
    <3>16. ASSUME NEW z \in Reqs, NEW k \in 1 .. Len(req[z].chain)
           PROVE  /\ req[z].chain[k] \in Reqs \ {new}
                  /\ req'[req[z].chain[k]].st = "chained"
      <4>1. PICK e : e = req[z].chain[k]
        OBVIOUS
      <4>2. e \in Reqs /\ req[e].st = "chained"
        BY ZenonT(30), <4>1, ElementOfSeq DEF WriteInv, TypeOK, Request, ChainInv
      <4>3. req'[e].st = "chained"
        BY <4>2, <3>11 DEF Taken
      <4> QED BY <4>1, <4>2, <4>3, <1>1
    <3>17. req'[new].st = "chained"
      BY <3>6, <3>9
    <3>18. \A z \in Reqs : \A k \in 1 .. Len(req'[z].chain) :
              req'[req'[z].chain[k]].st = "chained"
      <4>1. ASSUME NEW z \in Reqs \ {q}, NEW k \in 1 .. Len(req'[z].chain)
            PROVE  req'[req'[z].chain[k]].st = "chained"
        <5>1. req'[z].chain = req[z].chain
          BY <3>14
        <5> QED BY <4>1, <5>1, <3>16
      <4>2. ASSUME NEW k \in 1 .. Len(c) PROVE req'[c[k]].st = "chained"
        <5>1. CASE c[k] = new
          BY <5>1, <3>17
        <5>2. ASSUME NEW m \in 1 .. Len(req[q].chain), c[k] = req[q].chain[m]
              PROVE  req'[c[k]].st = "chained"
          BY <5>2, <3>16, <2>1
        <5> QED BY <5>1, <5>2, <3>5
      <4> QED BY <4>1, <4>2, <3>15
    <3>19. ASSUME NEW z \in Reqs \ {q}, NEW k \in 1 .. Len(c),
                  NEW m \in 1 .. Len(req[z].chain), c[k] = req[z].chain[m]
           PROVE  FALSE
      <4>1. c[k] # new
        BY <3>16, <3>19
      <4>2. PICK j \in 1 .. Len(req[q].chain) : c[k] = req[q].chain[j]
        BY <4>1, <3>5
      <4>3. q = z
        BY ZenonT(30), <4>2, <3>19, <2>1 DEF WriteInv, ChainInv
      <4> QED BY <4>3, <3>19
    <3>20. \A z, u \in Reqs :
              \A k \in 1 .. Len(req'[z].chain), m \in 1 .. Len(req'[u].chain) :
                 req'[z].chain[k] = req'[u].chain[m] => z = u /\ k = m
      <4>1. ASSUME NEW z \in Reqs, NEW u \in Reqs, NEW k \in 1 .. Len(req'[z].chain),
                   NEW m \in 1 .. Len(req'[u].chain), req'[z].chain[k] = req'[u].chain[m]
            PROVE  z = u /\ k = m
        <5>1. CASE z = q /\ u = q
          BY <4>1, <5>1, <3>5, <3>15
        <5>2. CASE z = q /\ u # q
          BY <4>1, <5>2, <3>14, <3>15, <3>19
        <5>3. CASE z # q /\ u = q
          BY <4>1, <5>3, <3>14, <3>15, <3>19
        <5>4. CASE z # q /\ u # q
          <6>1. req'[z].chain = req[z].chain /\ req'[u].chain = req[u].chain
            BY <5>4, <3>14
          <6> QED BY <4>1, <6>1 DEF WriteInv, ChainInv
        <5> QED BY <5>1, <5>2, <5>3, <5>4
      <4> QED BY <4>1
    <3>21. ChainInv'
      BY <3>18, <3>20 DEF ChainInv
    <3>22. \A z : fuse_page_is_writeback(z) => fuse_page_is_writeback(z)'
      <4>1. ASSUME NEW z \in writepages, req[z].data # <<>>
            PROVE  /\ z \in writepages' /\ req'[z].idx = req[z].idx
                   /\ Len(req'[z].data) >= Len(req[z].data)
        <5>1. z \in Reqs \ {new} /\ Len(req[z].data) \in Nat
          BY <4>1, <1>1, LenProperties DEF WriteInv, TypeOK, Request
        <5>2. req'[z].idx = req[z].idx /\ req'[z].data = req[z].data
          BY <5>1, <3>7, <3>9
        <5> QED BY <5>1, <5>2, <1>6
      <4> QED BY <4>1, <3>9, StillListed
    <3> QED BY <3>11, <3>12, <3>13, <3>21, <3>22, TakenKeeps
  <2> QED BY <2>4, <2>5, <1>6
<1>7. ASSUME ~(Goto(t, "count") /\ UNCHANGED <<writepages, req, fclock>>)
      PROVE  WriteInv'
  <2>1. PICK q \in {x \in writepages \ {new} : p \in Span(x)} :
           LET i == Carrier(q, p)
               list == <<q>> \o req[q].chain
           IN /\ writepages' = writepages \ {new}
              /\ IF Num(list[i]) = 1 /\ Pending(list[i])
                 THEN /\ th' = [th EXCEPT ![t].pc = "inplace", ![t].old = list[i]]
                      /\ fclock' = t /\ UNCHANGED <<plock, req>>
                 ELSE /\ req' = [req EXCEPT
                            ![new].st = "chained", ![new].data = <<cache[p]>>,
                            ![q].chain = SubSeq(@, 1, i - 1) \o <<new>>
                                            \o SubSeq(@, i, Len(@))]
                      /\ filled(t) /\ UNCHANGED fclock
    BY <1>0, <1>1, <1>3, <1>7 DEF fuse_writepage_in_flight
  <2>2. PICK i : i = Carrier(q, p)
    OBVIOUS
  <2>3. PICK old : old = (<<q>> \o req[q].chain)[i]
    OBVIOUS
  <2>4. CASE Num(old) = 1 /\ Pending(old)
    <3>1. /\ writepages' = writepages \ {new}
          /\ th' = [th EXCEPT ![t].pc = "inplace", ![t].old = old]
          /\ fclock' = t /\ UNCHANGED req
      BY <2>1, <2>2, <2>3, <2>4
    <3> QED BY <3>1, <2>2, <2>3, <2>4, <1>6
  <2>5. CASE ~(Num(old) = 1 /\ Pending(old))
    <3>1. /\ writepages' = writepages \ {new}
          /\ req' = [req EXCEPT
                  ![new].st = "chained", ![new].data = <<cache[p]>>,
                  ![q].chain = SubSeq(@, 1, i - 1) \o <<new>>
                                  \o SubSeq(@, i, Len(@))]
          /\ filled(t) /\ UNCHANGED fclock
      BY <2>1, <2>2, <2>3, <2>5
    <3> QED BY <3>1, <2>2, <2>3, <1>6
  <2> QED BY <2>4, <2>5
<1> QED BY <1>5, <1>7

LEMMA By_inplace_copy ==
    ASSUME WriteInv, NEW t \in Threads, inplace_copy(t) PROVE WriteInv'
<1>0. PICK r \in Registers : r = th[t]
  BY DEF WriteInv, TypeOK
<1>a. r.pc = "inplace" /\ FillOf(r) /\ FcLock(t)
  BY <1>0 DEF inplace_copy, WriteInv, FillInv, LockInv, FcLock
<1>1. PICK new \in Reqs : new = r.req /\ req[new].st = "new" /\ req[new].data = <<>>
  BY <1>0, <1>a, OwnRequest DEF FillOf
<1>2. PICK old \in Reqs \ {new} : old = r.old /\ Len(req[old].data) = 1
  BY <1>1, <1>a DEF FillOf, Num
<1>3. /\ UNCHANGED <<connected, ilock, isize, cache, ver, queued, writectr, asleep,
                     pend, writepages>>
      /\ filled(t) /\ fclock' = None
  BY DEF inplace_copy, inodeVars, listVars
<1>4. PICK s : /\ Stepped(t, s) /\ s.pc = "scan" /\ s.req = None
               /\ th' \in [Threads -> Registers] /\ th'[t] = s
  BY <1>3, FilledThread
<1>5. PICK d \in Seq(Nat) : d = <<cache[r.page]>> /\ Len(d) = 1
  <2>1. PICK v \in Nat : v = cache[r.page]
    BY DEF WriteInv, TypeOK, Registers
  <2>2. <<v>> \in Seq(Nat) /\ Len(<<v>>) = 1
    OBVIOUS
  <2> QED BY <2>1, <2>2
<1> DEFINE x == [req[old] EXCEPT !.data = d]
<1>6. req[old] \in Request /\ req[old].st # "free"
  <2>1. req[old].st = "free" => Len(req[old].data) = 0
    BY ReadyToFree, EmptySeq DEF WriteInv, FreeInv
  <2> QED BY <2>1, <1>2 DEF WriteInv, TypeOK
<1>7. /\ x \in Request /\ x.st = req[old].st /\ x.data = d /\ x.idx = req[old].idx
      /\ x.chain = req[old].chain /\ x.size = req[old].size
  BY <1>5, <1>6 DEF Request
<1>8. req' = [req EXCEPT ![old] = x, ![new] = FreeReq]
  <2>1. req \in [Reqs -> Request]
    BY DEF WriteInv, TypeOK
  <2> QED BY <2>1, <1>0, <1>1, <1>2, <1>5 DEF inplace_copy
<1> HIDE DEF x
<1>9. /\ req' \in [Reqs -> Request] /\ req'[new] = FreeReq /\ req'[old] = x
      /\ \A z \in Reqs \ {new, old} : req'[z] = req[z]
  BY <1>7, <1>8, ReadyToFree DEF WriteInv, TypeOK
<1>10. Taken(t, s)
  <2>1. \A z \in Reqs :
       /\ req[z].st \in InFlight \cup {"queued", "chained"}
          => /\ req'[z].st = req[z].st /\ req'[z].size = req[z].size
             /\ Len(req'[z].data) = Len(req[z].data)
       /\ req'[z].st \in InFlight \cup {"finishing"} => req'[z].st = req[z].st
       /\ req'[z].st = "free" => req'[z] = FreeReq
       /\ req[z].st = "new" /\ z # th[t].req
          => /\ req'[z].st = "new"
             /\ req[z].data = <<>> => req'[z].data = <<>>
    <3>1. ASSUME NEW z \in Reqs \ {new, old} PROVE req'[z] = req[z]
      BY <1>9
    <3>2. req'[new] = FreeReq /\ req'[new].st = "free" /\ new = th[t].req
      BY <1>0, <1>1, <1>9, ReadyToFree
    <3>3. /\ req'[old].st = req[old].st /\ req'[old].size = req[old].size
          /\ Len(req'[old].data) = Len(req[old].data) /\ req[old].data # <<>>
      BY <1>2, <1>5, <1>7, <1>9, EmptySeq
    <3> QED BY <3>1, <3>2, <3>3, <1>1, <1>6 DEF InFlight, WriteInv, FreeInv
  <2>2. writepages' \subseteq Reqs /\ queued' \in Seq(Reqs)
    BY <1>3 DEF WriteInv, TypeOK
  <2> QED BY <2>1, <2>2, <1>0, <1>3, <1>4, <1>9, <1>a DEF Taken
<1>11. FillOf(th[t])'
  BY <1>4 DEF FillOf
<1>12. QueueInv' /\ ChainInv'
  <2>1. \A z \in Reqs : req'[z].chain = req[z].chain \/ Len(req'[z].chain) = 0
    BY <1>7, <1>9, ReadyToFree
  <2> QED BY <2>1, <1>10, <1>3, TakenQueue, TakenChains
<1>13. \A z : fuse_page_is_writeback(z) => fuse_page_is_writeback(z)'
  <2>1. ASSUME NEW z \in writepages, req[z].data # <<>>
        PROVE  /\ z \in writepages' /\ req'[z].idx = req[z].idx
               /\ Len(req'[z].data) >= Len(req[z].data)
    <3>1. z \in Reqs \ {new} /\ Len(req[z].data) \in Nat
      BY <2>1, <1>1, LenProperties DEF WriteInv, TypeOK, Request
    <3>2. CASE z = old
      <4>1. /\ z \in writepages' /\ req'[z].idx = req[z].idx
            /\ Len(req'[z].data) = 1 /\ Len(req[z].data) = 1
        BY <3>2, <1>2, <1>3, <1>5, <1>7, <1>9
      <4> QED BY <4>1
    <3>3. CASE z # old
      BY <3>1, <3>3, <1>3, <1>9
    <3> QED BY <3>2, <3>3
  <2> QED BY <2>1, <1>9, StillListed
<1> QED BY <1>10, <1>11, <1>12, <1>13, TakenKeeps

LEMMA By_fuse_writepages_send ==
    ASSUME WriteInv, NEW t \in Threads, fuse_writepages_send(t) PROVE WriteInv'
<1>0. PICK r \in Registers : r = th[t]
  BY DEF WriteInv, TypeOK
<1>a. r.pc = "send" /\ FcLock(t) /\ MutexOf(t, r, ilock) /\ FillOf(r)
  BY <1>0 DEF fuse_writepages_send, WriteInv, MutexInv, FillInv
<1>1. PICK q \in Reqs : q = r.req /\ req[q].st = "new"
  BY <1>0, <1>a, OwnRequest DEF FillOf
<1>2. /\ UNCHANGED <<connected, ilock, isize, cache, ver, writectr, asleep, pend,
                     writepages>>
      /\ fclock' = t /\ queued' = Append(queued, q)
  BY <1>0, <1>1 DEF fuse_writepages_send, inodeVars, pageVars, dataVars
<1> DEFINE s == [r EXCEPT !.pc = "flush", !.crop = isize, !.req = None]
           x == [req[q] EXCEPT !.st = "queued"]
<1>3. /\ s \in Registers /\ s.pc = "flush" /\ s.req = None
      /\ s.op = r.op /\ s.after = r.after
  BY DEF Registers, PC, WriteInv, TypeOK
<1>4. th' = [th EXCEPT ![t] = s]
  BY <1>0 DEF fuse_writepages_send, WriteInv, TypeOK
<1>5. /\ x \in Request /\ x.st = "queued" /\ x.data = req[q].data
      /\ x.chain = req[q].chain /\ x.idx = req[q].idx
  <2>1. req[q] \in Request
    BY DEF WriteInv, TypeOK
  <2> QED BY <2>1 DEF Request, Status
<1>6. req' = [req EXCEPT ![q] = x]
  BY <1>0, <1>1 DEF fuse_writepages_send, WriteInv, TypeOK
<1> HIDE DEF s, x
<1>7. /\ req' \in [Reqs -> Request] /\ req'[q] = x
      /\ \A y \in Reqs \ {q} : req'[y] = req[y]
  BY <1>5, <1>6 DEF WriteInv, TypeOK
<1>8. Stepped(t, s)
  BY <1>3, <1>4, <1>2, <1>a DEF Stepped, MutexOf, Holding, Ending
<1>9. Taken(t, s)
  <2>1. \A y \in Reqs :
         /\ req[y].st \in InFlight \cup {"queued", "chained"}
            => /\ req'[y].st = req[y].st /\ req'[y].size = req[y].size
               /\ Len(req'[y].data) = Len(req[y].data)
         /\ req'[y].st \in InFlight \cup {"finishing"} => req'[y].st = req[y].st
         /\ req'[y].st = "free" => req'[y] = FreeReq
         /\ req[y].st = "new" /\ y # th[t].req
            => /\ req'[y].st = "new"
               /\ req[y].data = <<>> => req'[y].data = <<>>
    BY <1>0, <1>1, <1>5, <1>7 DEF InFlight, WriteInv, FreeInv
  <2>2. writepages' \subseteq Reqs /\ queued' \in Seq(Reqs)
    BY <1>2, AppendOne DEF WriteInv, TypeOK
  <2> QED BY <2>1, <2>2, <1>0, <1>a, <1>2, <1>3, <1>7, <1>8 DEF Taken
<1>10. FillOf(th[t])'
  <2>1. th'[t] = s
    BY <1>4 DEF WriteInv, TypeOK
  <2> QED BY <2>1, <1>3 DEF FillOf
<1>11. QueueInv'
  BY <1>1, <1>2, <1>5, <1>7, <1>9, TakenQueue
<1>12. ChainInv'
  <2>1. \A y \in Reqs : req'[y].chain = req[y].chain
    BY <1>5, <1>7
  <2> QED BY <2>1, <1>9, TakenChains
<1>13. \A p : fuse_page_is_writeback(p) => fuse_page_is_writeback(p)'
  <2>1. ASSUME NEW y \in writepages
        PROVE  /\ y \in writepages' /\ req'[y].idx = req[y].idx
               /\ Len(req'[y].data) >= Len(req[y].data)
    <3>1. y \in Reqs /\ Len(req[y].data) \in Nat
      BY LenProperties DEF WriteInv, TypeOK, Request
    <3>2. req'[y].idx = req[y].idx /\ req'[y].data = req[y].data
      BY <3>1, <1>5, <1>7
    <3> QED BY <3>1, <3>2, <1>2
  <2> QED BY <2>1, <1>7, StillListed
<1> QED BY <1>9, <1>10, <1>11, <1>12, <1>13, TakenKeeps

LEMMA By_fuse_writepage_locked ==
    ASSUME WriteInv, NEW t \in Threads, fuse_writepage_locked(t) PROVE WriteInv'
<1>0. PICK r \in Registers : r = th[t]
  BY DEF WriteInv, TypeOK
<1>a. r.pc = "locked" /\ FcLock(t) /\ MutexOf(t, r, ilock)
  BY <1>0 DEF fuse_writepage_locked, WriteInv, MutexInv
<1>1. PICK q \in Reqs :
        /\ req[q].st = "free"
        /\ req' = [req EXCEPT ![q].st = "queued", ![q].idx = r.page,
                              ![q].data = <<cache[r.page]>>]
        /\ writepages' = writepages \cup {q} /\ queued' = Append(queued, q)
  BY <1>0 DEF fuse_writepage_locked
<1>2. /\ UNCHANGED <<connected, ilock, isize, cache, ver, writectr, asleep, pend>>
      /\ fclock' = t
  BY DEF fuse_writepage_locked, inodeVars
<1>b. PICK d \in Seq(Nat) : d = <<cache[r.page]>>
  <2>1. PICK v \in Nat : v = cache[r.page]
    BY DEF WriteInv, TypeOK, Registers
  <2>2. <<v>> \in Seq(Nat)
    OBVIOUS
  <2> QED BY <2>1, <2>2
<1> DEFINE s == [r EXCEPT !.pc = "flush", !.crop = isize]
           x == [req[q] EXCEPT !.st = "queued", !.idx = r.page, !.data = d]
<1>3. /\ s \in Registers /\ s.pc = "flush" /\ s.req = r.req
      /\ s.op = r.op /\ s.after = r.after
  BY DEF Registers, PC, WriteInv, TypeOK
<1>4. th' = [th EXCEPT ![t] = s]
  BY <1>0 DEF fuse_writepage_locked, WriteInv, TypeOK
<1>c. req[q] \in Request /\ req[q].data = <<>> /\ Len(req[q].chain) = 0
  BY <1>1, ReadyToFree DEF WriteInv, TypeOK, FreeInv
<1>5. x \in Request /\ x.st = "queued" /\ Len(x.chain) = 0
  BY <1>b, <1>c DEF Request, Status, Registers
<1>6. req' = [req EXCEPT ![q] = x]
  BY <1>1, <1>b DEF WriteInv, TypeOK
<1> HIDE DEF s, x
<1>7. /\ req' \in [Reqs -> Request] /\ req'[q] = x
      /\ \A y \in Reqs \ {q} : req'[y] = req[y]
  BY <1>5, <1>6 DEF WriteInv, TypeOK
<1>8. Stepped(t, s)
  BY <1>3, <1>4, <1>2, <1>a DEF Stepped, MutexOf, Holding, Ending
<1>9. Taken(t, s)
  <2>1. \A y \in Reqs :
         /\ req[y].st \in InFlight \cup {"queued", "chained"}
            => /\ req'[y].st = req[y].st /\ req'[y].size = req[y].size
               /\ Len(req'[y].data) = Len(req[y].data)
         /\ req'[y].st \in InFlight \cup {"finishing"} => req'[y].st = req[y].st
         /\ req'[y].st = "free" => req'[y] = FreeReq
         /\ req[y].st = "new" /\ y # th[t].req
            => /\ req'[y].st = "new"
               /\ req[y].data = <<>> => req'[y].data = <<>>
    BY <1>1, <1>5, <1>7 DEF InFlight, WriteInv, FreeInv
  <2>2. writepages' \subseteq Reqs /\ queued' \in Seq(Reqs)
    BY <1>1, AppendOne DEF WriteInv, TypeOK
  <2>3. ASSUME s.req # None PROVE s.req = th[t].req /\ req'[s.req].st = "new"
    <3>1. s.req = th[t].req
      BY <1>0, <1>3
    <3>2. s.req \in Reqs /\ req[s.req].st = "new"
      BY <2>3, <3>1, OwnRequest
    <3>3. s.req \in Reqs \ {q}
      BY <3>2, <1>1
    <3> QED BY <3>1, <3>2, <3>3, <1>7
  <2> QED BY <2>1, <2>2, <2>3, <1>0, <1>a, <1>2, <1>3, <1>7, <1>8 DEF Taken
<1>10. FillOf(th[t])'
  <2>1. th'[t] = s
    BY <1>4 DEF WriteInv, TypeOK
  <2>2. s.after # "alloc"
    BY <1>3, <1>a DEF MutexOf
  <2> QED BY <2>1, <2>2, <1>3 DEF FillOf
<1>11. QueueInv'
  BY <1>1, <1>5, <1>7, <1>9, TakenQueue
<1>12. ChainInv'
  <2>1. \A y \in Reqs : req'[y].chain = req[y].chain \/ Len(req'[y].chain) = 0
    BY <1>5, <1>7
  <2> QED BY <2>1, <1>9, TakenChains
<1>13. \A p : fuse_page_is_writeback(p) => fuse_page_is_writeback(p)'
  <2>1. ASSUME NEW y \in writepages, req[y].data # <<>>
        PROVE  /\ y \in writepages' /\ req'[y].idx = req[y].idx
               /\ Len(req'[y].data) >= Len(req[y].data)
    <3>1. y \in Reqs \ {q} /\ Len(req[y].data) \in Nat
      BY <2>1, <1>c, LenProperties DEF WriteInv, TypeOK, Request
    <3> QED BY <3>1, <1>1, <1>7
  <2> QED BY <2>1, <1>7, StillListed
<1> QED BY <1>9, <1>10, <1>11, <1>12, <1>13, TakenKeeps

(***************************************************************************)
(* Requests that are sent, dropped or finished                             *)
(***************************************************************************)

LEMMA By_fuse_writepage_finish ==
    ASSUME WriteInv, NEW q \in Reqs, fuse_writepage_finish(q) PROVE WriteInv'
<1>1. /\ req[q].st = "finishing" /\ fclock = q /\ FcLock(q)
      /\ req' = [req EXCEPT ![q] = FreeReq]
      /\ writepages' = writepages \ {q} /\ asleep' = {} /\ fclock' = None
      /\ UNCHANGED <<th, connected, ilock, isize, cache, ver, queued, writectr, pend>>
  BY DEF fuse_writepage_finish, inodeVars, pageVars, dataVars, WriteInv, LockInv, FcLock
<1>2. /\ req' \in [Reqs -> Request] /\ req'[q] = FreeReq
      /\ \A y \in Reqs \ {q} : req'[y] = req[y]
  BY <1>1, ReadyToFree DEF WriteInv, TypeOK
<1>3. TypeOK'
  BY <1>1, <1>2 DEF WriteInv, TypeOK
<1>4. MutexInv'
  BY <1>1 DEF WriteInv, MutexInv
<1>5. /\ \A t \in Threads : th[t].pc # "inplace"
      /\ \A y \in Reqs \ {q} : req[y].st # "finishing"
  BY <1>1 DEF WriteInv, LockInv
<1>6. LockInv'
  BY <1>1, <1>2, <1>5, ReadyToFree DEF LockInv
<1>7. \A t \in Threads : th[t].req # None => th[t].req \in Reqs \ {q}
  BY <1>1, OwnRequest
<1>8. FillInv'
  <2>1. ASSUME NEW t \in Threads PROVE FillOf(th[t])'
    <3>1. FillOf(th[t])
      BY DEF WriteInv, FillInv
    <3> QED BY <3>1, <1>1, <1>2, <1>5, <1>7 DEF FillOf
  <2> QED BY <2>1 DEF FillInv
<1>9. FreeInv'
  BY <1>1, <1>2, ReadyToFree DEF WriteInv, FreeInv, Num
<1>10. OwnInv'
  BY <1>1, <1>2, <1>7 DEF WriteInv, OwnInv
<1>11. QueueInv'
  <2>1. \A i \in 1 .. Len(queued) : queued[i] \in Reqs \ {q}
    BY <1>1, ElementOfSeq DEF WriteInv, TypeOK, QueueInv
  <2> QED BY <2>1, <1>1, <1>2 DEF WriteInv, QueueInv
<1>12. ChainInv'
  <2>1. \A y \in Reqs : req'[y].chain = req[y].chain \/ Len(req'[y].chain) = 0
    BY <1>2, ReadyToFree
  <2>2. \A y \in Reqs : \A i \in 1 .. Len(req[y].chain) :
           req[y].chain[i] \in Reqs \ {q} /\ req[req[y].chain[i]].st = "chained"
    BY <1>1, ElementOfSeq DEF WriteInv, TypeOK, Request, ChainInv
  <2>3. ASSUME NEW y \in Reqs, NEW i \in 1 .. Len(req'[y].chain)
        PROVE  req'[y].chain = req[y].chain
    <3>1. Len(req'[y].chain) # 0
      BY <2>3
    <3> QED BY <2>1, <3>1
  <2>4. ASSUME NEW y \in Reqs, NEW i \in 1 .. Len(req'[y].chain)
        PROVE  req'[req'[y].chain[i]].st = "chained"
    BY <2>2, <2>3, <1>2
  <2>5. ASSUME NEW y \in Reqs, NEW r \in Reqs, NEW i \in 1 .. Len(req'[y].chain),
               NEW j \in 1 .. Len(req'[r].chain), req'[y].chain[i] = req'[r].chain[j]
        PROVE  y = r /\ i = j
    <3>1. req'[y].chain = req[y].chain /\ req'[r].chain = req[r].chain
      BY <2>3
    <3> QED BY <2>5, <3>1 DEF WriteInv, ChainInv
  <2> QED BY <2>4, <2>5 DEF ChainInv
<1>13. PendInv'
  <2>1. connected => \A i \in 1 .. Len(pend) : pend[i] \in Reqs \ {q}
    BY <1>1, ElementOfSeq DEF WriteInv, PendInv
  <2> QED BY <2>1, <1>1, <1>2 DEF WriteInv, PendInv
<1>14. SleepInv'
  BY <1>1 DEF SleepInv
<1>15. WritectrExact'
  <2>1. Sent' = Sent
    BY <1>1, <1>2, ReadyToFree DEF Sent
  <2> QED BY <2>1, <1>1 DEF WriteInv, WritectrExact, Biased, InSection
<1> QED BY <1>3, <1>4, <1>6, <1>8, <1>9, <1>10, <1>11, <1>12, <1>13, <1>14, <1>15
        DEF WriteInv

(* A secondary request is sent while the one it waited for still counts:   *)
(* no thread can be in its section without writes.                         *)
LEMMA By_writepage_end_next ==
    ASSUME WriteInv, NEW q \in Reqs, writepage_end_next(q) PROVE WriteInv'
<1>1. /\ req[q].st = "ending" /\ FcLock(q) /\ req[q].chain # <<>>
      /\ UNCHANGED <<th, connected, ilock, isize, cache, ver, queued>>
  BY DEF writepage_end_next, inodeVars, pageVars, dataVars
<1>2. /\ req[q] \in Request /\ req[q].chain \in Seq(Reqs)
      /\ req[q].idx \in Nat /\ req[q].size \in Nat
  BY DEF WriteInv, TypeOK, Request
<1>3. PICK c \in Seq(Reqs) : c = req[q].chain /\ c # <<>>
  BY <1>1, <1>2
<1>4. /\ Head(c) \in Reqs /\ Tail(c) \in Seq(Reqs) /\ Len(c) \in Nat \ {0}
      /\ Head(c) = c[1] /\ Len(Tail(c)) = Len(c) - 1
      /\ \A i \in 1 .. Len(Tail(c)) : Tail(c)[i] = c[i + 1]
  BY <1>3, EmptySeq, HeadTailProperties
<1>5. PICK next \in Reqs, tail \in Seq(Reqs) : next = Head(c) /\ tail = Tail(c)
  BY <1>4
<1>6. \A y \in Reqs : \A i \in 1 .. Len(req[y].chain) :
         req[y].chain[i] \in Reqs /\ req[req[y].chain[i]].st = "chained"
  <2>1. ASSUME NEW y \in Reqs, NEW i \in 1 .. Len(req[y].chain)
        PROVE  req[y].chain[i] \in Reqs
    <3>1. req[y].chain \in Seq(Reqs)
      BY DEF WriteInv, TypeOK, Request
    <3> QED BY <3>1, ElementOfSeq
  <2>2. ChainInv
    BY DEF WriteInv
  <2> QED BY <2>1, <2>2 DEF ChainInv
<1>7. next = c[1] /\ 1 \in 1 .. Len(c) /\ req[next].st = "chained"
  BY <1>3, <1>4, <1>5, <1>6
<1>8. \A i \in 1 .. Len(tail) :
         i + 1 \in 1 .. Len(c) /\ i + 1 # 1 /\ tail[i] = c[i + 1]
  BY <1>4, <1>5
<1> DEFINE x == [req[q] EXCEPT !.chain = tail]
           r == [req EXCEPT ![q] = x]
<1>9. /\ x \in Request /\ x.st = req[q].st /\ x.idx = req[q].idx
      /\ x.data = req[q].data /\ x.size = req[q].size /\ x.chain = tail
  BY <1>2 DEF Request
<1>10. fuse_send_writepage(r, writepages \cup {next}, next,
                           req[q].idx + req[q].size, q)
  <2>1. r = [req EXCEPT ![q].chain = Tail(@)]
    BY <1>3, <1>5 DEF WriteInv, TypeOK
  <2>2. next = Head(req[q].chain)
    BY <1>3, <1>5
  <2> QED BY <2>1, <2>2 DEF writepage_end_next
<1> HIDE DEF x
<1>11. /\ r \in [Reqs -> Request] /\ r[q] = x
       /\ \A y \in Reqs \ {q} : r[y] = req[y]
  BY <1>9 DEF WriteInv, TypeOK
<1> HIDE DEF r
<1>12. \A y \in Reqs : /\ r[y].st = req[y].st /\ r[y].idx = req[y].idx
                       /\ r[y].data = req[y].data /\ r[y].size = req[y].size
                       /\ r[y].st = "free" => r[y] = req[y]
  BY <1>1, <1>9, <1>11
<1>13. ASSUME NEW y \in Reqs, NEW i \in 1 .. Len(r[y].chain)
       PROVE  \E k \in 1 .. Len(req[y].chain) :
                 /\ r[y].chain[i] = req[y].chain[k]
                 /\ k = IF y = q THEN i + 1 ELSE i
  <2>1. CASE y = q
    <3>1. r[y].chain = tail
      BY <2>1, <1>9, <1>11
    <3>2. i + 1 \in 1 .. Len(c) /\ tail[i] = c[i + 1]
      BY <3>1, <1>8, <1>13
    <3> QED BY <2>1, <3>1, <3>2, <1>3
  <2>2. CASE y # q
    BY <2>2, <1>11
  <2> QED BY <2>1, <2>2
<1>14. ASSUME NEW y \in Reqs, NEW i \in 1 .. Len(r[y].chain)
       PROVE  req[r[y].chain[i]].st = "chained" /\ r[y].chain[i] \in Reqs \ {next}
  <2>1. PICK k \in 1 .. Len(req[y].chain) :
           r[y].chain[i] = req[y].chain[k] /\ k = IF y = q THEN i + 1 ELSE i
    BY <1>13
  <2>2. ASSUME req[y].chain[k] = next PROVE FALSE
    <3>1. next = req[q].chain[1] /\ 1 \in 1 .. Len(req[q].chain)
      BY <1>3, <1>7
    <3>2. y = q /\ k = 1
      BY <2>2, <3>1 DEF WriteInv, ChainInv
    <3> QED BY <2>1, <3>2, <1>14
  <2> QED BY <2>1, <2>2, <1>6
<1>15. ASSUME NEW y \in Reqs, NEW z \in Reqs, NEW i \in 1 .. Len(r[y].chain),
              NEW j \in 1 .. Len(r[z].chain), r[y].chain[i] = r[z].chain[j]
       PROVE  y = z /\ i = j
  <2>1. PICK k \in 1 .. Len(req[y].chain) :
           r[y].chain[i] = req[y].chain[k] /\ k = IF y = q THEN i + 1 ELSE i
    BY <1>13
  <2>2. PICK m \in 1 .. Len(req[z].chain) :
           r[z].chain[j] = req[z].chain[m] /\ m = IF z = q THEN j + 1 ELSE j
    BY <1>13
  <2>3. req[y].chain[k] = req[z].chain[m]
    BY <2>1, <2>2, <1>15
  <2>4. y = z /\ k = m
    BY <2>3 DEF WriteInv, ChainInv
  <2>5. CASE y = q
    <3>1. i + 1 = j + 1
      BY <2>1, <2>2, <2>4, <2>5
    <3> QED BY <3>1, <2>4
  <2>6. CASE y # q
    BY <2>1, <2>2, <2>4, <2>6
  <2> QED BY <2>5, <2>6
<1>16. /\ queued' \in Seq(Reqs)
       /\ \A i \in 1 .. Len(queued') :
            req[queued'[i]].st = "queued" /\ queued'[i] \in Reqs \ {next}
       /\ \A i, j \in 1 .. Len(queued') : queued'[i] = queued'[j] => i = j
  BY <1>1, <1>7, ElementOfSeq DEF WriteInv, TypeOK, QueueInv
<1>17. \A t \in Threads : ~InSection(t)
  <2>1. ASSUME NEW t \in Threads, InSection(t) PROVE FALSE
    <3>1. Biased /\ writectr = FUSE_NOWRITE
      BY <2>1 DEF Biased, WriteInv, WritectrExact
    <3>2. writectr = Cardinality(Sent) + FUSE_NOWRITE
      BY <3>1 DEF WriteInv, WritectrExact
    <3>3. q \in Sent
      BY <1>1 DEF Sent
    <3>4. Cardinality(Sent) # 0
      BY <3>3, Counts
    <3> QED BY <3>1, <3>2, <3>4, Counts
  <2> QED BY <2>1
<1>18. PICK size \in Nat : size = req[q].idx + req[q].size
  BY <1>2
<1>19. PICK w \in SUBSET Reqs : w = writepages \cup {next}
  BY DEF WriteInv, TypeOK
<1>20. q \notin Threads /\ q \in Threads \cup Reqs
  OBVIOUS
<1>21. fuse_send_writepage(r, w, next, size, q) /\ writepages \subseteq w
  BY <1>10, <1>18, <1>19
<1>22. \A z \in Reqs : \A i \in 1 .. Len(r[z].chain) :
          req[r[z].chain[i]].st = "chained" /\ r[z].chain[i] \in Reqs \ {next}
  BY <1>14
<1>23. \A z, y \in Reqs :
          \A i \in 1 .. Len(r[z].chain), j \in 1 .. Len(r[y].chain) :
             r[z].chain[i] = r[y].chain[j] => z = y /\ i = j
  BY <1>15
<1>24. q \in Reqs => req[q].st # "finishing"
  BY <1>1
<1>25. req[next].st \in {"queued", "chained"} /\ r \in [Reqs -> Request]
  BY <1>7, <1>11
<1>26. ReadyToSend(r, next)
  BY <1>12, <1>16, <1>17, <1>22, <1>23, <1>25 DEF ReadyToSend
<1> QED BY <1>1, <1>20, <1>21, <1>24, <1>25, <1>26, SendKeeps

LEMMA By_fuse_flush_writepages ==
    ASSUME WriteInv, NEW t \in Threads, fuse_flush_writepages(t) PROVE WriteInv'
<1>0. PICK r \in Registers : r = th[t]
  BY DEF WriteInv, TypeOK
<1>1. /\ r.pc = "flush" /\ FcLock(t) /\ MutexOf(t, r, ilock) /\ FillOf(r)
      /\ UNCHANGED <<connected, ilock, isize, cache, ver>>
  BY <1>0 DEF fuse_flush_writepages, inodeVars, pageVars, dataVars, WriteInv, MutexInv,
              FillInv
<1>2. CASE writectr >= 0 /\ queued # <<>>
  <2>1. /\ queued' = Tail(queued) /\ UNCHANGED th
        /\ fuse_send_writepage(req, writepages, Head(queued), r.crop, t)
    BY <1>0, <1>2 DEF fuse_flush_writepages
  <2>2. /\ queued \in Seq(Reqs)
        /\ \A i \in 1 .. Len(queued) : queued[i] \in Reqs /\ req[queued[i]].st = "queued"
        /\ \A i, j \in 1 .. Len(queued) : queued[i] = queued[j] => i = j
    BY ElementOfSeq DEF WriteInv, TypeOK, QueueInv
  <2>3. /\ Head(queued) \in Reqs /\ queued' \in Seq(Reqs) /\ Len(queued) \in Nat \ {0}
        /\ Head(queued) = queued[1] /\ Len(queued') = Len(queued) - 1
        /\ \A i \in 1 .. Len(queued') : queued'[i] = queued[i + 1]
    BY <1>2, <2>1, <2>2, EmptySeq, HeadTailProperties
  <2>4. PICK q \in Reqs : q = Head(queued)
    BY <2>3
  <2>5. q = queued[1] /\ 1 \in 1 .. Len(queued) /\ req[q].st = "queued"
    BY <2>2, <2>3, <2>4
  <2>6. \A i \in 1 .. Len(queued') : i + 1 \in 1 .. Len(queued) /\ i + 1 # 1
    BY <2>3
  <2>7. \A i \in 1 .. Len(queued') :
           req[queued'[i]].st = "queued" /\ queued'[i] \in Reqs \ {q}
    <3>1. ASSUME NEW i \in 1 .. Len(queued')
          PROVE  req[queued'[i]].st = "queued" /\ queued'[i] \in Reqs \ {q}
      <4>1. queued'[i] = queued[i + 1] /\ i + 1 \in 1 .. Len(queued) /\ i + 1 # 1
        BY <2>3, <2>6
      <4>2. queued[i + 1] # q
        BY <4>1, <2>2, <2>5
      <4> QED BY <4>1, <4>2, <2>2
    <3> QED BY <3>1
  <2>8. ASSUME NEW i \in 1 .. Len(queued'), NEW j \in 1 .. Len(queued'),
               queued'[i] = queued'[j]
        PROVE  i = j
    <3>1. i + 1 = j + 1
      BY <2>2, <2>3, <2>6, <2>8
    <3> QED BY <3>1
  <2>9. \A u \in Threads : ~InSection(u)
    <3>1. ASSUME NEW u \in Threads, InSection(u) PROVE FALSE
      <4>1. writectr = FUSE_NOWRITE
        BY <3>1 DEF WriteInv, WritectrExact
      <4>2. FUSE_NOWRITE < 0
        BY SMT DEF FUSE_NOWRITE
      <4> QED BY <1>2, <4>1, <4>2, Counts
    <3> QED BY <3>1
  <2>10. /\ \A y \in Reqs : \A i \in 1 .. Len(req[y].chain) :
               req[req[y].chain[i]].st = "chained" /\ req[y].chain[i] \in Reqs \ {q}
         /\ \A x, y \in Reqs :
               \A i \in 1 .. Len(req[x].chain), j \in 1 .. Len(req[y].chain) :
                  req[x].chain[i] = req[y].chain[j] => x = y /\ i = j
    <3>1. \A y \in Reqs : \A i \in 1 .. Len(req[y].chain) :
             req[y].chain[i] \in Reqs /\ req[req[y].chain[i]].st = "chained"
      BY ElementOfSeq DEF WriteInv, TypeOK, Request, ChainInv
    <3>2. \A x, y \in Reqs :
             \A i \in 1 .. Len(req[x].chain), j \in 1 .. Len(req[y].chain) :
                req[x].chain[i] = req[y].chain[j] => x = y /\ i = j
      BY DEF WriteInv, ChainInv
    <3>3. \A y \in Reqs : \A i \in 1 .. Len(req[y].chain) :
             req[req[y].chain[i]].st = "chained" /\ req[y].chain[i] \in Reqs \ {q}
      BY <3>1, <2>5
    <3> QED BY <3>2, <3>3
  <2>11. /\ req \in [Reqs -> Request] /\ writepages \in SUBSET Reqs /\ r.crop \in Nat
         /\ t \notin Reqs
    BY DEF WriteInv, TypeOK, Registers
  <2>12. fuse_send_writepage(req, writepages, q, r.crop, t)
    BY <2>1, <2>4
  <2>13. \A i, j \in 1 .. Len(queued') : queued'[i] = queued'[j] => i = j
    BY <2>8
  <2>14. PICK size \in Nat : size = r.crop
    BY <2>11
  <2>15. /\ fuse_send_writepage(req, writepages, q, size, t) /\ FcLock(t)
         /\ th[t].pc # "inplace" /\ t \in Threads \cup Reqs
    BY <1>0, <1>1, <2>12, <2>14
  <2>16. \A y \in Reqs : /\ req[y].st = req[y].st /\ req[y].idx = req[y].idx
                         /\ req[y].data = req[y].data /\ req[y].size = req[y].size
                         /\ req[y].st = "free" => req[y] = req[y]
    OBVIOUS
  <2>17. ReadyToSend(req, q)
    BY <2>3, <2>5, <2>7, <2>9, <2>10, <2>13, <2>16 DEF ReadyToSend
  <2> QED BY <1>1, <2>1, <2>11, <2>15, <2>17, SendKeeps
<1>3. CASE ~(writectr >= 0 /\ queued # <<>>)
  <2> DEFINE s == [r EXCEPT !.pc = r.after, !.pages = {}, !.crop = 0, !.after = "idle"]
  <2>1. /\ s \in Registers /\ s.pc = r.after /\ s.after = "idle"
        /\ s.op = r.op /\ s.req = r.req /\ s.isw = r.isw
    <3>1. r.after \in After
      BY DEF Registers
    <3>2. r.after \in PC /\ "idle" \in After
      BY <3>1 DEF PC, After
    <3> QED BY <3>2 DEF Registers
  <2>2. th' = [th EXCEPT ![t] = s]
    BY <1>0, <1>3 DEF fuse_flush_writepages, WriteInv, TypeOK
  <2> HIDE DEF s
  <2>3. fclock' = None /\ UNCHANGED <<writepages, queued, writectr, asleep, req, pend>>
    BY <1>3 DEF fuse_flush_writepages, listVars
  <2>4. s.pc \in After
    BY <2>1 DEF Registers
  <2>5. Stepped(t, s)
    BY <2>1, <2>2, <2>4, <1>1 DEF Stepped, MutexOf, Holding, Ending, After
  <2>6. Taken(t, s)
    <3>1. s.req # None => s.req = th[t].req /\ req'[s.req].st = "new"
      BY <1>0, <2>1, <2>3, OwnRequest
    <3>2. s.pc \notin {"waitwrites", "section", "replied", "inplace"}
      BY <2>4 DEF After
    <3>3. \A y \in Reqs : req[y].st = "free" => req[y] = FreeReq
      BY DEF WriteInv, FreeInv
    <3>4. /\ writepages' \subseteq Reqs /\ queued' \in Seq(Reqs)
          /\ req' \in [Reqs -> Request]
      BY <2>3 DEF WriteInv, TypeOK
    <3> QED BY <3>1, <3>2, <3>3, <3>4, <2>3, <2>5, <1>0, <1>1 DEF Taken
  <2>7. FillOf(th[t])'
    <3>1. th'[t] = s
      BY <2>2 DEF WriteInv, TypeOK
    <3>2. s.pc = "alloc" => s.req = None
      BY <2>1, <1>1 DEF FillOf
    <3> QED BY <3>1, <3>2, <2>1, <2>4 DEF FillOf, After
  <2>8. QueueInv' /\ ChainInv'
    BY <2>3, <2>6, TakenQueue, TakenChains
  <2>9. \A p : fuse_page_is_writeback(p) => fuse_page_is_writeback(p)'
    BY <2>3 DEF fuse_page_is_writeback, Span, Num
  <2> QED BY <2>6, <2>7, <2>8, <2>9, TakenKeeps
<1> QED BY <1>2, <1>3

(***************************************************************************)
(* The invariant, and what it gives                                        *)
(***************************************************************************)

LEMMA WriteInit == Init => WriteInv
<1> SUFFICES ASSUME Init PROVE WriteInv
  OBVIOUS
<1>1. /\ fclock = None /\ isize = NumPages /\ cache = [p \in Pages |-> 0]
      /\ writectr = 0 /\ queued = <<>> /\ writepages = {} /\ asleep = {}
      /\ req = [q \in Reqs |-> FreeReq] /\ pend = <<>>
      /\ th = [t \in Threads |-> Idle] /\ ver = 0
  BY DEF Init
<1>2. <<>> \in Seq(Reqs) /\ Len(<<>>) = 0
  BY EmptySeq
<1>3. \A q \in Reqs : req[q] = FreeReq
  BY <1>1
<1>4. \A t \in Threads : th[t] = Idle
  BY <1>1
<1>5. TypeOK
  BY <1>1, <1>2, IdleRegisters, ReadyToFree DEF TypeOK
<1>6. MutexInv /\ LockInv /\ FillInv /\ OwnInv
  <2>1. MutexInv
    BY <1>4, IdleRegisters DEF MutexInv, MutexOf, Holding, Ending
  <2>2. LockInv
    BY <1>3, <1>4, IdleRegisters, ReadyToFree DEF LockInv
  <2>3. FillInv
    BY <1>4, IdleRegisters DEF FillInv, FillOf
  <2>4. OwnInv
    BY <1>4, IdleRegisters DEF OwnInv
  <2> QED BY <2>1, <2>2, <2>3, <2>4
<1>7. FreeInv /\ QueueInv /\ ChainInv /\ PendInv
  <2>1. FreeInv
    BY <1>3, ReadyToFree DEF FreeInv
  <2>2. QueueInv /\ PendInv
    BY <1>1, <1>2 DEF QueueInv, PendInv
  <2>3. ChainInv
    BY <1>3, ReadyToFree DEF ChainInv
  <2> QED BY <2>1, <2>2, <2>3
<1>8. SleepInv
  BY <1>1 DEF SleepInv
<1>9. WritectrExact
  <2>1. Sent = {}
    BY <1>3, ReadyToFree DEF Sent
  <2>2. Cardinality(Sent) = 0
    BY <2>1, FS_EmptySet
  <2>3. ~Biased /\ \A t \in Threads : th[t].pc = "idle"
    BY <1>4, IdleRegisters DEF Biased, InSection
  <2> QED BY <2>2, <2>3, <1>1 DEF WritectrExact, InSection
<1> QED BY <1>5, <1>6, <1>7, <1>8, <1>9 DEF WriteInv

LEMMA Starting == ASSUME WriteInv, NEW t \in Threads, Start(t) PROVE WriteInv'
<1>1. CASE flush_begin(t)
  BY <1>1, By_flush_begin, MovedKeeps
<1>2. CASE fsync_begin(t)
  BY <1>2, By_fsync_begin, MovedKeeps
<1>3. ASSUME NEW p \in Pages, reclaim_begin(t, p) PROVE WriteInv'
  BY <1>3, By_reclaim_begin, MovedKeeps
<1>4. ASSUME NEW p \in Pages, write_begin(t, p) PROVE WriteInv'
  BY <1>4, By_write_begin, MovedKeeps
<1>5. ASSUME NEW s \in Sizes, setattr_begin(t, s) PROVE WriteInv'
  BY <1>5, By_setattr_begin, MovedKeeps
<1> QED BY <1>1, <1>2, <1>3, <1>4, <1>5 DEF Start

LEMMA Stepping == ASSUME WriteInv, NEW t \in Threads, Step(t) PROVE WriteInv'
<1>1. CASE fuse_flush_writepages(t)
  BY <1>1, By_fuse_flush_writepages
<1>2. CASE write_cache_pages(t)
  BY <1>2, By_write_cache_pages, MovedKeeps
<1>3. CASE fill_check(t)
  BY <1>3, By_fill_check, MovedKeeps
<1>4. CASE fill_fails(t)
  BY <1>4, By_fill_fails, MovedKeeps
<1>5. CASE fill_alloc(t)
  BY <1>5, By_fill_alloc
<1>6. CASE fill_count(t)
  BY <1>6, By_fill_count
<1>7. CASE fuse_writepage_in_flight(t)
  BY <1>7, By_fuse_writepage_in_flight
<1>8. CASE inplace_copy(t)
  BY <1>8, By_inplace_copy
<1>9. CASE fuse_writepages_send(t)
  BY <1>9, By_fuse_writepages_send
<1>10. CASE writepages_last(t)
  BY <1>10, By_writepages_last, MovedKeeps
<1>11. CASE flush_end(t)
  BY <1>11, By_flush_end, MovedKeeps
<1>12. CASE fuse_writepage(t)
  BY <1>12, By_fuse_writepage, MovedKeeps
<1>13. CASE writepage_fails(t)
  BY <1>13, By_writepage_fails, MovedKeeps
<1>14. CASE fuse_writepage_locked(t)
  BY <1>14, By_fuse_writepage_locked
<1>15. CASE reclaim_end(t)
  BY <1>15, By_reclaim_end, MovedKeeps
<1>16. CASE fuse_wait_on_page_writeback(t)
  BY <1>16, By_fuse_wait_on_page_writeback
<1>17. CASE fuse_set_nowrite(t)
  BY <1>17, By_fuse_set_nowrite
<1>18. CASE set_nowrite_wait(t)
  BY <1>18, By_set_nowrite_wait
<1>19. CASE fsync_wait(t)
  BY <1>19, By_fsync_wait, MovedKeeps
<1>20. CASE fsync_release(t)
  BY <1>20, By_fsync_release
<1>21. CASE fsync_check(t)
  BY <1>21, By_fsync_check, MovedKeeps
<1>22. CASE fsync_end(t)
  BY <1>22, By_fsync_end, MovedKeeps
<1>23. CASE write_lock(t)
  BY <1>23, By_write_lock, MovedKeeps
<1>24. CASE fuse_write_end(t)
  BY <1>24, By_fuse_write_end, MovedKeeps
<1>25. CASE mkwrite_end(t)
  BY <1>25, By_mkwrite_end, MovedKeeps
<1>26. CASE setattr_request(t)
  BY <1>26, By_setattr_request
<1>27. CASE setattr_apply(t)
  BY <1>27, By_setattr_apply
<1>28. CASE truncate_pagecache(t)
  BY <1>28, By_truncate_pagecache, MovedKeeps
<1>29. CASE invalidate_inode_pages2(t)
  BY <1>29, By_invalidate_inode_pages2, MovedKeeps
<1>30. CASE fuse_launder_page(t)
  BY <1>30, By_fuse_launder_page, MovedKeeps
<1>31. CASE laundered(t)
  BY <1>31, By_laundered, MovedKeeps
<1>32. CASE setattr_end(t)
  BY <1>32, By_setattr_end, MovedKeeps
<1> QED
  BY <1>1, <1>2, <1>3, <1>4, <1>5, <1>6, <1>7, <1>8, <1>9, <1>10, <1>11,
     <1>12, <1>13, <1>14, <1>15, <1>16, <1>17, <1>18, <1>19, <1>20, <1>21,
     <1>22, <1>23, <1>24, <1>25, <1>26, <1>27, <1>28, <1>29, <1>30, <1>31,
     <1>32 DEF Step

LEMMA Serving == ASSUME WriteInv, NEW q \in Reqs, Serve(q) PROVE WriteInv'
  BY By_dev_read, By_dev_copy, By_dev_reply, By_dev_error, By_writepage_end_next,
     By_writepage_end_count, By_fuse_writepage_finish DEF Serve

(* Every step of the file system, of the daemon and of the device keeps    *)
(* WriteInv: the locks, the place of each request, the count and the       *)
(* sleepers (fuse_writepages_fill to fuse_writepage_end in file.c,         *)
(* fuse_do_setattr in dir.c).                                              *)
THEOREM WriteInvariant == Spec => []WriteInv
<1>1. Init => WriteInv
  BY WriteInit
<1>2. WriteInv /\ [Next]_vars => WriteInv'
  <2> SUFFICES ASSUME WriteInv, [Next]_vars PROVE WriteInv'
    OBVIOUS
  <2>1. ASSUME NEW t \in Threads, Start(t) PROVE WriteInv'
    BY <2>1, Starting
  <2>2. ASSUME NEW t \in Threads, Step(t) PROVE WriteInv'
    BY <2>2, Stepping
  <2>3. ASSUME NEW q \in Reqs, Serve(q) PROVE WriteInv'
    BY <2>3, Serving
  <2>4. ASSUME NEW p \in Pages, fuse_release_user_pages(p) PROVE WriteInv'
    BY <2>4, By_fuse_release_user_pages
  <2>5. CASE abort_conn
    BY <2>5, By_abort_conn
  <2>6. CASE UNCHANGED vars
    BY <2>6, Stuttering
  <2> QED BY <2>1, <2>2, <2>3, <2>4, <2>5, <2>6 DEF Next
<1> QED BY <1>1, <1>2, PTL DEF Spec

(* fi->writectr counts exactly the writes that were sent and did not end,  *)
(* and has the bias exactly while fuse_set_nowrite keeps writes off: for   *)
(* every number of threads and of requests, no write is in flight while a  *)
(* truncate or an fsync is in its section, and the BUG_ONs of              *)
(* fuse_set_nowrite and __fuse_release_nowrite never fire.                 *)
THEOREM CountIsExact == Spec => []WritectrExact
<1>1. WriteInv => WritectrExact
  BY DEF WriteInv
<1> QED BY <1>1, WriteInvariant, PTL

(* No thread sleeps on fi->page_waitq for something that has happened:     *)
(* fuse_writepage_finish wakes the sleepers after the request is off the   *)
(* list and after fi->writectr was counted down, before fc->lock is free.  *)
THEOREM WakeUpsArrive == Spec => []NoLostWakeup
<1>1. WriteInv => NoLostWakeup
  <2> SUFFICES ASSUME WriteInv, fclock = None PROVE NoLostWakeup
    BY DEF NoLostWakeup
  <2>1. \A q \in Reqs : req[q].st # "finishing"
    BY DEF WriteInv, LockInv
  <2> QED BY <2>1 DEF WriteInv, SleepInv, NoLostWakeup
<1> QED BY <1>1, WriteInvariant, PTL

-----------------------------------------------------------------------------
HIDE FuseWritebackAssumption DEF Pages

(***************************************************************************)
(* Truncation                                                              *)
(***************************************************************************)

(* A truncate in fuse_release_nowrite, with the new size; one that         *)
(* launders a page.                                                        *)
Releasing(r) == r.pc = "flush" /\ r.after = "truncate"
Laundering(r) == \/ r.pc \in {"launder", "laundered"}
                 \/ r.pc \in {"locked", "flush", "waitpage"}
                    /\ r.after \in {"launder", "laundered"}

(* The page of a thread is locked.                                         *)
Holds(r) == \/ r.pc \in {"fill", "alloc", "inflight", "inplace", "count", "writepage",
                         "locked", "reclaimed", "waitpage", "store", "launder", "laundered"}
            \/ r.pc \in {"send", "flush"} /\ r.after \in {"alloc", "reclaimed", "launder"}

(* Page p is in the file, or the truncate that cut it off will come to it. *)
InFile(p) ==
    \/ p < isize
    \/ \E o \in Threads : \/ Releasing(th[o])
                          \/ th[o].pc = "truncate" /\ th[o].cur <= p

LockedInv ==
    /\ plock \in [Pages -> Threads \cup {None}]
    /\ dirty \subseteq Pages /\ pinned \subseteq Pages
    /\ \A t \in Threads : Holds(th[t]) => plock[th[t].page] = t

FileInv ==
    /\ \A p \in dirty \cup pinned : InFile(p)
    /\ \A t \in Threads :
          /\ \A p \in th[t].pages : InFile(p)
          /\ Holds(th[t]) /\ th[t].op # "write" => InFile(th[t].page)

(* The registers: a request is filled by fuse_writepages only, it starts   *)
(* at a page of the thread, and writeback of one page has it.              *)
Filling == {"scan", "scanned", "fill", "alloc", "inflight", "inplace", "count", "send"}
RegsOf(r, rq, size) ==
    /\ r.pc = "idle" => r = Idle
    /\ r.req # None => r.pc \in Filling /\ r.op \in {"flush", "fsync"}
                       /\ rq[r.req].idx \in r.pages
    /\ r.pc \in Filling => r.op \in {"flush", "fsync"}
    /\ r.pc \in {"writepage", "reclaimed"} => r.op = "reclaim"
    /\ r.pc \in {"lock", "store"} => r.op \in {"write", "mkwrite"}
    /\ r.pc = "waitpage" /\ r.after = "store" => r.op \in {"write", "mkwrite"}
    /\ r.pc = "locked" => r.page \in r.pages
    /\ r.pc \in {"locked", "flush"} /\ r.after = "reclaimed" => r.op = "reclaim"
    /\ r.pc = "send" => r.after \in {"alloc", "written"}
    /\ r.pc = "flush" => /\ r.after \in {"alloc", "written", "reclaimed", "launder",
                                         "synced", "unlock", "truncate"}
                         /\ r.pages # {} \/ r.op \in {"fsync", "truncate"}
                         /\ r.after = "alloc" => r.op \in {"flush", "fsync"}
    /\ r.op = "write" => r.pc \in {"lock", "waitpage", "store"}
    /\ r.op = "truncate" /\ (r.pc \in {"nowrite", "waitwrites", "section", "replied"}
                             \/ Releasing(r)) => r.cur = 0
    /\ Releasing(r) \/ r.pc = "truncate" => r.size = size
    /\ Laundering(r) => r.cur = r.page

RegsInv == \A t \in Threads : RegsOf(th[t], req, isize)

(* A queued request that is cut off waits for the truncate's own flush, or *)
(* for a thread that still has its page under writeback.                   *)
CutInv ==
    \A i \in 1 .. Len(queued) :
        \/ req[queued[i]].idx < isize
        \/ \E o \in Threads : Releasing(th[o])
        \/ \E u \in Threads : th[u].pc = "flush" /\ req[queued[i]].idx \in th[u].pages

(* fuse_flush_writepages lets go of fc->lock in the middle only while a    *)
(* truncate is not over, which waits for the pages of the thread.          *)
Expected(pages, o) ==
    \/ Releasing(o)
    \/ o.pc = "truncate"
    \/ o.pc = "invalidate" /\ \E p \in pages : p >= o.cur
    \/ Laundering(o) /\ \E p \in pages : p > o.cur
CropInv ==
    connected => \A t \in Threads : th[t].pc = "flush" =>
        /\ th[t].crop = isize
        /\ fclock # t => \E o \in Threads : th[o].op = "truncate" /\ Expected(th[t].pages, th[o])

(* What was sent is within the file.                                       *)
SentInv == \A q \in Sent : req[q].idx + req[q].size <= isize

(* Once the daemon has truncated its file, no write makes it longer.       *)
DoneInv ==
    /\ ssize \in Nat
    /\ \A t \in Threads : th[t].pc = "replied" => ssize <= th[t].size

TruncInv ==
    /\ LockedInv /\ FileInv /\ RegsInv /\ CutInv /\ CropInv /\ SentInv /\ DoneInv
    /\ TruncateHolds

(* A step of thread t that does not end fuse_flush_writepages and leaves   *)
(* the size of the file alone: its registers become x.                     *)
Plain(t, x) ==
    /\ th' = [th EXCEPT ![t] = x]
    /\ th[t].pc \notin {"flush", "replied"} /\ UNCHANGED <<connected, isize>>
    /\ x.pc = "flush" => ~Releasing(x) /\ x.crop = isize /\ fclock' = t
    /\ fclock' = fclock \/ fclock \in {None, t}
Sends(t, x) ==
    /\ queued' = queued \/ \E q \in Reqs : /\ queued' = Append(queued, q) /\ x.pc = "flush"
                                           /\ req'[q].idx \in x.pages
    /\ \A q \in Reqs : q # th[t].req /\ req[q].st \in {"new", "queued"}
                      => req'[q].idx = req[q].idx
    /\ \A q \in Sent' : q \in Sent /\ req'[q].idx = req[q].idx /\ req'[q].size = req[q].size

(* The page locks, the pages it has, what waits for it.                    *)
Locks(t, x) ==
    /\ \/ plock' = plock /\ (Holds(x) => Holds(th[t]) /\ x.page = th[t].page)
       \/ plock' = [plock EXCEPT ![th[t].page] = None] /\ Holds(th[t]) /\ ~Holds(x)
       \/ plock[x.page] = None /\ plock' = [plock EXCEPT ![x.page] = t]
    /\ dirty' \subseteq Pages /\ pinned' \subseteq Pages

Stays(t, x) ==
    /\ th[t].pc # "truncate"
    /\ \A p \in dirty' \cup pinned' : p \in dirty \cup pinned \/ InFile(p)
    /\ \A p \in x.pages : p \in th[t].pages \/ InFile(p)
    /\ Holds(x) /\ x.op # "write" => InFile(x.page)

Awaits(t, x) ==
    th[t].op = "truncate" => \A u \in Threads \ {t} :
        th[u].pc = "flush" /\ Expected(th[u].pages, th[t])
           => x.op = "truncate" /\ Expected(th[u].pages, x)

(* The offset, the size and the chain of a request.                       *)
LEMMA RequestTypes ==
    ASSUME WriteInv, NEW q \in Reqs
    PROVE  /\ req[q] \in Request /\ req[q].idx \in Pages /\ req[q].idx \in Nat
           /\ req[q].size \in Nat /\ req[q].chain \in Seq(Reqs)
<1>1. req[q] \in Request
  BY DEF WriteInv, TypeOK
<1>2. req[q].idx \in Pages /\ req[q].size \in Nat /\ req[q].chain \in Seq(Reqs)
  BY <1>1 DEF Request
<1>3. Pages \subseteq Nat
  BY DEF Pages
<1> QED
  BY <1>1, <1>2, <1>3

LEMMA PlainThreads ==
    ASSUME WriteInv, NEW t \in Threads, NEW x, th' = [th EXCEPT ![t] = x]
    PROVE  /\ th'[t] = x /\ \A u \in Threads \ {t} : th'[u] = th[u]
           /\ \A u \in Threads : th[u] \in Registers
  BY DEF WriteInv, TypeOK

LEMMA PlainLocked ==
    ASSUME WriteInv, LockedInv, NEW t \in Threads, NEW x \in Registers,
           th' = [th EXCEPT ![t] = x],
           Locks(t, x)
    PROVE  LockedInv'
<1>1. /\ th'[t] = x /\ \A u \in Threads \ {t} : th'[u] = th[u]
      /\ \A u \in Threads : th[u].page \in Pages
  BY PlainThreads DEF Registers
<1>2. x.page \in Pages
  BY DEF Registers
<1>3. None \notin Threads
  BY FuseWritebackAssumption
<1>4. plock' \in [Pages -> Threads \cup {None}]
  BY <1>1, <1>2 DEF Locks, LockedInv
<1>5. ASSUME NEW u \in Threads, Holds(th'[u]) PROVE plock'[th'[u].page] = u
  <2>1. CASE u = t
    <3>1. CASE plock' = plock /\ (Holds(x) => Holds(th[t]) /\ x.page = th[t].page)
      BY <1>1, <1>5, <2>1, <3>1 DEF LockedInv
    <3>2. CASE plock' = [plock EXCEPT ![th[t].page] = None] /\ Holds(th[t]) /\ ~Holds(x)
      BY <1>1, <1>5, <2>1, <3>2
    <3>3. CASE plock[x.page] = None /\ plock' = [plock EXCEPT ![x.page] = t]
      BY <1>1, <1>2, <1>5, <2>1, <3>3 DEF LockedInv
    <3> QED
      BY <3>1, <3>2, <3>3 DEF Locks
  <2>2. CASE u # t
    <3>1. plock[th[u].page] = u /\ th'[u] = th[u] /\ th[u].page \in Pages
      BY <1>1, <1>5, <2>2 DEF LockedInv
    <3>2. CASE plock' = plock
      BY <3>1, <3>2
    <3>3. CASE plock' = [plock EXCEPT ![th[t].page] = None] /\ Holds(th[t])
      <4>1. plock[th[t].page] = t
        BY <3>3 DEF LockedInv
      <4> QED
        BY <1>1, <2>2, <3>1, <3>3, <4>1 DEF LockedInv
    <3>4. CASE plock[x.page] = None /\ plock' = [plock EXCEPT ![x.page] = t]
      BY <1>2, <1>3, <3>1, <3>4 DEF LockedInv
    <3> QED
      BY <3>2, <3>3, <3>4 DEF Locks
  <2> QED
    BY <2>1, <2>2
<1> QED
  BY <1>4, <1>5 DEF LockedInv, Locks

LEMMA PlainFile ==
    ASSUME WriteInv, FileInv, NEW t \in Threads, NEW x \in Registers,
           th' = [th EXCEPT ![t] = x],
           Stays(t, x), UNCHANGED isize,
           th[t].pc # "flush"
    PROVE  FileInv'
<1>1. /\ th'[t] = x /\ \A u \in Threads \ {t} : th'[u] = th[u]
  BY PlainThreads
<1>2. ASSUME NEW p, InFile(p) PROVE InFile(p)'
  <2>1. CASE p < isize
    BY <2>1 DEF InFile
  <2>2. CASE \E o \in Threads : \/ Releasing(th[o])
                                \/ th[o].pc = "truncate" /\ th[o].cur <= p
    <3>1. PICK o \in Threads : \/ Releasing(th[o])
                               \/ th[o].pc = "truncate" /\ th[o].cur <= p
      BY <2>2
    <3>2. o # t
      BY <3>1 DEF Stays, Releasing
    <3>3. th'[o] = th[o]
      BY <1>1, <3>2
    <3> QED
      BY <3>1, <3>3 DEF InFile, Releasing
  <2> QED
    BY <1>2, <2>1, <2>2 DEF InFile
<1>3. \A p \in dirty' \cup pinned' : InFile(p)'
  <2> SUFFICES ASSUME NEW p \in dirty' \cup pinned' PROVE InFile(p)
    BY <1>2
  <2> QED
    BY DEF Stays, FileInv
<1>4. ASSUME NEW u \in Threads PROVE /\ \A p \in th'[u].pages : InFile(p)
                                     /\ Holds(th'[u]) /\ th'[u].op # "write" => InFile(th'[u].page)
  <2>1. CASE u = t
    BY <1>1, <2>1 DEF Stays, FileInv
  <2>2. CASE u # t
    BY <1>1, <2>2 DEF FileInv
  <2> QED
    BY <2>1, <2>2
<1>5. ASSUME NEW u \in Threads
      PROVE  (/\ \A p \in th[u].pages : InFile(p)
              /\ Holds(th[u]) /\ th[u].op # "write" => InFile(th[u].page))'
  <2>1. PICK v : v = th'[u].page
    OBVIOUS
  <2>2. Holds(th'[u]) /\ th'[u].op # "write" => InFile(v)'
    BY <1>2, <1>4, <2>1
  <2>3. \A p \in th'[u].pages : InFile(p)'
    BY <1>2, <1>4
  <2> QED
    BY <2>1, <2>2, <2>3 DEF InFile, Releasing, Holds
<1> QED
  BY <1>3, <1>5 DEF FileInv

LEMMA PlainRegs ==
    ASSUME WriteInv, RegsInv, NEW t \in Threads, NEW x \in Registers, Plain(t, x),
           Sends(t, x),
           RegsOf(x, req', isize)
    PROVE  RegsInv'
<1>1. /\ th'[t] = x /\ \A u \in Threads \ {t} : th'[u] = th[u]
      /\ \A u \in Threads : th[u] \in Registers
  BY PlainThreads DEF Plain
<1>2. ASSUME NEW u \in Threads PROVE RegsOf(th'[u], req', isize)
  <2>1. CASE u = t
    BY <1>1, <2>1
  <2>2. CASE u # t
    <3>1. RegsOf(th[u], req, isize) /\ th'[u] = th[u] /\ th[u] \in Registers
      BY <1>1, <2>2 DEF RegsInv
    <3>2. th[u].req # None => req'[th[u].req].idx = req[th[u].req].idx
      <4>1. th[u].req # None => th[u].req # th[t].req
        BY <2>2 DEF WriteInv, OwnInv
      <4> QED
        BY <3>1, <4>1, OwnRequest DEF Sends
    <3>3. PICK y : y = th[u]
      OBVIOUS
    <3>4. RegsOf(y, req, isize) /\ (y.req # None => req'[y.req].idx = req[y.req].idx)
      BY <3>1, <3>2, <3>3
    <3>5. RegsOf(y, req', isize)
      BY <3>4 DEF RegsOf
    <3> QED
      BY <3>1, <3>3, <3>5
  <2> QED
    BY <2>1, <2>2
<1>3. isize' = isize
  BY DEF Plain
<1> QED
  BY <1>2, <1>3 DEF RegsInv

(* What is cut off stays with whoever will see to it.                      *)
LEMMA PlainCut ==
    ASSUME WriteInv, CutInv, NEW t \in Threads, NEW x \in Registers, Plain(t, x),
           Sends(t, x)
    PROVE  CutInv'
<1>1. /\ th'[t] = x /\ \A u \in Threads \ {t} : th'[u] = th[u]
      /\ queued \in Seq(Reqs)
  BY PlainThreads DEF Plain, WriteInv, TypeOK
<1>2. ASSUME NEW n \in Pages,
             \/ n < isize
             \/ \E o \in Threads : Releasing(th[o])
             \/ \E u \in Threads : th[u].pc = "flush" /\ n \in th[u].pages
      PROVE  (\/ n < isize
              \/ \E o \in Threads : Releasing(th[o])
              \/ \E u \in Threads : th[u].pc = "flush" /\ n \in th[u].pages)'
  <2>1. CASE n < isize
    BY <2>1 DEF Plain
  <2>2. ASSUME NEW o \in Threads, Releasing(th[o]) PROVE Releasing(th[o])'
    BY <1>1, <2>2 DEF Plain, Releasing
  <2>3. ASSUME NEW u \in Threads, th[u].pc = "flush", n \in th[u].pages
        PROVE  th'[u].pc = "flush" /\ n \in th'[u].pages
    BY <1>1, <2>3 DEF Plain
  <2> QED
    BY <1>2, <2>1, <2>2, <2>3
<1>3. ASSUME NEW i \in 1 .. Len(queued), NEW q, q = queued[i]
      PROVE  (\/ req[q].idx < isize
              \/ \E o \in Threads : Releasing(th[o])
              \/ \E u \in Threads : th[u].pc = "flush" /\ req[q].idx \in th[u].pages)'
  <2>1. q \in Reqs /\ req[q].st = "queued" /\ req[q].idx \in Pages
    BY <1>1, <1>3, ElementOfSeq DEF WriteInv, TypeOK, QueueInv, Request
  <2>2. PICK n \in Pages : n = req[q].idx
    BY <2>1
  <2>3. req'[q].idx = n
    <3>1. q # th[t].req
      BY <2>1, OwnRequest, FuseWritebackAssumption
    <3> QED
      BY <2>1, <2>2, <3>1 DEF Sends
  <2>4. \/ n < isize
        \/ \E o \in Threads : Releasing(th[o])
        \/ \E u \in Threads : th[u].pc = "flush" /\ n \in th[u].pages
    BY <1>3, <2>2 DEF CutInv
  <2>5. (\/ n < isize
         \/ \E o \in Threads : Releasing(th[o])
         \/ \E u \in Threads : th[u].pc = "flush" /\ n \in th[u].pages)'
    BY <1>2, <2>4
  <2> QED
    BY <2>3, <2>5
<1>4. CASE queued' = queued
  BY <1>3, <1>4 DEF CutInv
<1>5. ASSUME NEW q \in Reqs, queued' = Append(queued, q), x.pc = "flush",
             req'[q].idx \in x.pages
      PROVE  CutInv'
  <2>1. th'[t].pc = "flush" /\ req'[q].idx \in th'[t].pages
    BY <1>1, <1>5
  <2>2. Len(queued') = Len(queued) + 1
        /\ \A i \in 1 .. Len(queued) + 1 : queued'[i] = IF i <= Len(queued) THEN queued[i] ELSE q
    BY <1>1, <1>5, AppendOne
  <2>3. Len(queued) \in Nat
    BY <1>1, LenProperties
  <2>4. ASSUME NEW i \in 1 .. Len(queued')
        PROVE  (i \in 1 .. Len(queued) /\ queued'[i] = queued[i]) \/ queued'[i] = q
    BY <2>2, <2>3
  <2> QED
    BY <1>3, <2>1, <2>4 DEF CutInv
<1> QED
  BY <1>4, <1>5 DEF Sends

(* A thread that was interrupted is still waited for.                      *)
LEMMA PlainCrop ==
    ASSUME WriteInv, CropInv, NEW t \in Threads, NEW x \in Registers, Plain(t, x),
           Awaits(t, x)
    PROVE  CropInv'
<1>1. /\ th'[t] = x /\ \A u \in Threads \ {t} : th'[u] = th[u]
  BY PlainThreads DEF Plain
<1>2. SUFFICES ASSUME connected, NEW u \in Threads, th'[u].pc = "flush"
      PROVE  /\ th'[u].crop = isize
             /\ fclock' # u => \E o \in Threads :
                   th'[o].op = "truncate" /\ Expected(th'[u].pages, th'[o])
  BY DEF Plain, CropInv, Expected, Releasing, Laundering
<1>3. CASE u = t
  BY <1>1, <1>2, <1>3 DEF Plain
<1>4. CASE u # t
  <2>1. th'[u] = th[u] /\ th[u].pc = "flush" /\ th[u].crop = isize
    BY <1>1, <1>2, <1>4 DEF CropInv
  <2>2. ASSUME fclock' # u PROVE fclock # u
    BY <1>4, <2>2, FuseWritebackAssumption DEF Plain
  <2>3. ASSUME NEW o \in Threads, th[o].op = "truncate", Expected(th[u].pages, th[o])
        PROVE  th'[o].op = "truncate" /\ Expected(th[u].pages, th'[o])
    <3>1. CASE o = t
      BY <1>1, <1>4, <2>1, <2>3, <3>1 DEF Awaits
    <3>2. CASE o # t
      BY <1>1, <2>3, <3>2
    <3> QED
      BY <3>1, <3>2
  <2> QED
    BY <1>2, <2>1, <2>2, <2>3 DEF CropInv
<1> QED
  BY <1>3, <1>4

LEMMA PlainSizes ==
    ASSUME WriteInv, SentInv, DoneInv, TruncateHolds, NEW t \in Threads,
           NEW x \in Registers,
           Plain(t, x), Sends(t, x), UNCHANGED ssize, x.pc # "replied"
    PROVE  SentInv' /\ DoneInv' /\ TruncateHolds'
<1>1. /\ th'[t] = x /\ \A u \in Threads \ {t} : th'[u] = th[u]
  BY PlainThreads DEF Plain
<1>2. SentInv'
  BY DEF SentInv, Sends, Plain
<1>3. DoneInv'
  BY <1>1 DEF DoneInv
<1>4. TruncateHolds'
  BY <1>1 DEF TruncateHolds, Plain, At
<1> QED
  BY <1>2, <1>3, <1>4

LEMMA PlainKeeps ==
    ASSUME WriteInv, TruncInv, NEW t \in Threads, NEW x \in Registers, Plain(t, x),
           Sends(t, x),
           Locks(t, x), Stays(t, x), Awaits(t, x), RegsOf(x, req', isize),
           UNCHANGED ssize, x.pc # "replied"
    PROVE  TruncInv'
<1>1. LockedInv /\ FileInv /\ RegsInv /\ CutInv /\ CropInv /\ SentInv /\ DoneInv /\ TruncateHolds
  BY DEF TruncInv
<1>2. th' = [th EXCEPT ![t] = x] /\ UNCHANGED isize /\ th[t].pc # "flush"
  BY DEF Plain
<1>3. LockedInv'
  BY <1>1, <1>2, PlainLocked
<1>4. FileInv'
  BY <1>1, <1>2, PlainFile
<1>5. RegsInv'
  BY <1>1, PlainRegs
<1>6. CutInv'
  BY <1>1, PlainCut
<1>7. CropInv'
  BY <1>1, PlainCrop
<1>8. SentInv' /\ DoneInv' /\ TruncateHolds'
  BY <1>1, PlainSizes
<1> QED
  BY <1>3, <1>4, <1>5, <1>6, <1>7, <1>8 DEF TruncInv

-----------------------------------------------------------------------------
(* The steps of a thread that change no request.                           *)
LEMMA Facts ==
    ASSUME WriteInv, TruncInv, NEW t \in Threads, NEW r, r = th[t]
    PROVE  /\ r \in Registers /\ MutexOf(t, r, ilock) /\ RegsOf(r, req, isize)
           /\ Holds(r) => plock[r.page] = t
           /\ Holds(r) /\ r.op # "write" => InFile(r.page)
           /\ \A p \in r.pages : InFile(p)
           /\ \A p \in dirty \cup pinned : InFile(p)
           /\ dirty \subseteq Pages /\ pinned \subseteq Pages
  BY DEF WriteInv, TypeOK, MutexInv, TruncInv, RegsInv, LockedInv, FileInv

Resting(t, x) ==
    /\ th' = [th EXCEPT ![t] = x]
    /\ th[t].pc \notin {"flush", "replied"} /\ x.pc \notin {"flush", "replied"}
    /\ UNCHANGED <<connected, isize, fclock, req, queued, ssize>>

LEMMA RestKeeps ==
    ASSUME WriteInv, TruncInv, WriteInv', NEW t \in Threads, NEW x, Resting(t, x),
           Locks(t, x), Stays(t, x), Awaits(t, x), RegsOf(x, req, isize)
    PROVE  TruncInv'
<1>1. x \in Registers
  BY DEF Resting, WriteInv, TypeOK
<1>2. Plain(t, x)
  BY DEF Resting, Plain
<1>3. Sends(t, x)
  BY DEF Resting, Sends, Sent
<1>4. RegsOf(x, req', isize) /\ UNCHANGED ssize /\ x.pc # "replied"
  BY DEF Resting
<1> QED
  BY <1>1, <1>2, <1>3, <1>4, PlainKeeps

(* The page locks and the pages are as they were.                          *)
LEMMA SameKeeps ==
    ASSUME WriteInv, TruncInv, WriteInv', NEW t \in Threads, NEW x, Resting(t, x),
           UNCHANGED <<dirty, plock, pinned>>, th[t].pc # "truncate",
           Holds(x) => Holds(th[t]) /\ x.page = th[t].page /\ (x.op # "write" => th[t].op # "write"),
           x.pages \subseteq th[t].pages, Awaits(t, x), RegsOf(x, req, isize)
    PROVE  TruncInv'
<1>1. PICK r : r = th[t]
  OBVIOUS
<1>2. Locks(t, x)
  BY <1>1, Facts DEF Locks
<1>3. Stays(t, x)
  BY <1>1, Facts DEF Stays
<1> QED
  BY <1>2, <1>3, RestKeeps

LEMMA UnmovedKeeps ==
    ASSUME TruncInv,
           UNCHANGED <<connected, isize, fclock, req, queued, ssize, th, dirty, plock,
                                 pinned>>
    PROVE  TruncInv'
  BY DEF TruncInv, LockedInv, FileInv, RegsInv, CutInv, CropInv, SentInv, DoneInv,
         TruncateHolds, InFile, Releasing, Laundering, Holds, Expected, Sent, At, RegsOf

LEMMA IdleRegs == ASSUME NEW rq, NEW size PROVE RegsOf(Idle, rq, size)
  BY DEF RegsOf, Idle, Filling, Releasing, Laundering

LEMMA Trunc_flush_begin ==
    ASSUME WriteInv, TruncInv, WriteInv', NEW t \in Threads, flush_begin(t)
    PROVE  TruncInv'
<1>1. PICK r : r = th[t]
  OBVIOUS
<1>2. /\ r \in Registers /\ MutexOf(t, r, ilock) /\ RegsOf(r, req, isize)
      /\ Holds(r) => plock[r.page] = t
      /\ Holds(r) /\ r.op # "write" => InFile(r.page)
      /\ \A p \in r.pages : InFile(p)
      /\ \A p \in dirty \cup pinned : InFile(p)
      /\ dirty \subseteq Pages /\ pinned \subseteq Pages
  BY <1>1, Facts
<1>3. UNCHANGED <<connected, isize, fclock, req, queued, ssize>>
  BY DEF flush_begin, inodeVars, pageVars, dataVars, reqVars, listVars, srvVars, Goto,
     At, FcLock
<1>4. /\ r.pc = "idle"
      /\ UNCHANGED <<dirty, plock, pinned>>
      /\ th' = [th EXCEPT ![t] = [r EXCEPT !.op = "flush", !.pc = "scan"]]
  BY <1>1, <1>2 DEF flush_begin, inodeVars, pageVars, dataVars, reqVars, listVars,
                    srvVars, Goto, At, FcLock, WriteInv, TypeOK
<1>5. ASSUME r.pc = "idle", UNCHANGED <<dirty, plock, pinned>>,
             th' = [th EXCEPT ![t] = [r EXCEPT !.op = "flush", !.pc = "scan"]]
      PROVE  TruncInv'
  <2> DEFINE x == [r EXCEPT !.op = "flush", !.pc = "scan"]
  <2>1. /\ x.op = "flush" /\ x.pc = "scan" /\ x.page = r.page /\ x.pages = r.pages
        /\ x.req = r.req /\ x.isw = r.isw /\ x.cur = r.cur /\ x.after = r.after
        /\ x.crop = r.crop /\ x.old = r.old /\ x.err = r.err /\ x.size = r.size
    BY <1>2 DEF Registers
  <2>1a. th' = [th EXCEPT ![t] = x]
    BY <1>5
  <2> HIDE DEF x
  <2>2. Resting(t, x)
    BY <1>1, <1>2, <1>3, <1>5, <2>1, <2>1a DEF Resting
  <2>3. RegsOf(x, req, isize)
    BY <1>2, <1>5, <2>1 DEF RegsOf, Filling, Releasing, Laundering, MutexOf, Ending, Idle
  <2>4. Awaits(t, x)
    BY <1>1, <1>2, <1>5, <2>1 DEF Awaits, Expected, Releasing, Laundering, RegsOf,
                                  Filling, MutexOf, Ending, Idle, Registers
  <2>5. /\ Holds(x) => Holds(r) /\ x.page = r.page /\ (x.op # "write" => r.op # "write")
        /\ x.pages \subseteq r.pages /\ r.pc # "truncate"
    BY <1>2, <1>5, <2>1 DEF Holds, RegsOf, Filling, MutexOf, Ending
  <2> QED
    BY <1>1, <1>5, <2>2, <2>3, <2>4, <2>5, SameKeeps
<1> QED
  BY <1>4, <1>5

LEMMA Trunc_fsync_begin ==
    ASSUME WriteInv, TruncInv, WriteInv', NEW t \in Threads, fsync_begin(t)
    PROVE  TruncInv'
<1>1. PICK r : r = th[t]
  OBVIOUS
<1>2. /\ r \in Registers /\ MutexOf(t, r, ilock) /\ RegsOf(r, req, isize)
      /\ Holds(r) => plock[r.page] = t
      /\ Holds(r) /\ r.op # "write" => InFile(r.page)
      /\ \A p \in r.pages : InFile(p)
      /\ \A p \in dirty \cup pinned : InFile(p)
      /\ dirty \subseteq Pages /\ pinned \subseteq Pages
  BY <1>1, Facts
<1>3. UNCHANGED <<connected, isize, fclock, req, queued, ssize>>
  BY DEF fsync_begin, inodeVars, pageVars, dataVars, reqVars, listVars, srvVars, Goto,
     At, FcLock
<1>4. /\ r.pc = "idle"
      /\ UNCHANGED <<dirty, plock, pinned>>
      /\ th' = [th EXCEPT ![t] = [r EXCEPT !.op = "fsync", !.pc = "scan"]]
  BY <1>1, <1>2 DEF fsync_begin, inodeVars, pageVars, dataVars, reqVars, listVars,
                    srvVars, Goto, At, FcLock, WriteInv, TypeOK
<1>5. ASSUME r.pc = "idle", UNCHANGED <<dirty, plock, pinned>>,
             th' = [th EXCEPT ![t] = [r EXCEPT !.op = "fsync", !.pc = "scan"]]
      PROVE  TruncInv'
  <2> DEFINE x == [r EXCEPT !.op = "fsync", !.pc = "scan"]
  <2>1. /\ x.op = "fsync" /\ x.pc = "scan" /\ x.page = r.page /\ x.pages = r.pages
        /\ x.req = r.req /\ x.isw = r.isw /\ x.cur = r.cur /\ x.after = r.after
        /\ x.crop = r.crop /\ x.old = r.old /\ x.err = r.err /\ x.size = r.size
    BY <1>2 DEF Registers
  <2>1a. th' = [th EXCEPT ![t] = x]
    BY <1>5
  <2> HIDE DEF x
  <2>2. Resting(t, x)
    BY <1>1, <1>2, <1>3, <1>5, <2>1, <2>1a DEF Resting
  <2>3. RegsOf(x, req, isize)
    BY <1>2, <1>5, <2>1 DEF RegsOf, Filling, Releasing, Laundering, MutexOf, Ending, Idle
  <2>4. Awaits(t, x)
    BY <1>1, <1>2, <1>5, <2>1 DEF Awaits, Expected, Releasing, Laundering, RegsOf,
                                  Filling, MutexOf, Ending, Idle, Registers
  <2>5. /\ Holds(x) => Holds(r) /\ x.page = r.page /\ (x.op # "write" => r.op # "write")
        /\ x.pages \subseteq r.pages /\ r.pc # "truncate"
    BY <1>2, <1>5, <2>1 DEF Holds, RegsOf, Filling, MutexOf, Ending
  <2> QED
    BY <1>1, <1>5, <2>2, <2>3, <2>4, <2>5, SameKeeps
<1> QED
  BY <1>4, <1>5

LEMMA Trunc_fill_check ==
    ASSUME WriteInv, TruncInv, WriteInv', NEW t \in Threads, fill_check(t)
    PROVE  TruncInv'
<1>1. PICK r : r = th[t]
  OBVIOUS
<1>2. /\ r \in Registers /\ MutexOf(t, r, ilock) /\ RegsOf(r, req, isize)
      /\ Holds(r) => plock[r.page] = t
      /\ Holds(r) /\ r.op # "write" => InFile(r.page)
      /\ \A p \in r.pages : InFile(p)
      /\ \A p \in dirty \cup pinned : InFile(p)
      /\ dirty \subseteq Pages /\ pinned \subseteq Pages
  BY <1>1, Facts
<1>3. UNCHANGED <<connected, isize, fclock, req, queued, ssize>>
  BY DEF fill_check, inodeVars, pageVars, dataVars, reqVars, listVars, srvVars, Goto,
     At, FcLock
<1>4. \/ \E b \in BOOLEAN : /\ r.pc = "fill"
                            /\ r.req # None
                            /\ UNCHANGED <<dirty, plock, pinned>>
                            /\ th' = [th EXCEPT ![t] = [r EXCEPT !.isw = b, !.after = "alloc", !.pc = "send"]]
      \/ \E b \in BOOLEAN : /\ r.pc = "fill"
                            /\ UNCHANGED <<dirty, plock, pinned>>
                            /\ th' = [th EXCEPT ![t] = [r EXCEPT !.isw = b, !.after = "idle", !.pc = "alloc"]]
  <2>1. PICK b \in BOOLEAN : b = fuse_page_is_writeback(r.page)
    BY DEF fuse_page_is_writeback
  <2>2. PICK c \in BOOLEAN :
           c = /\ r.req # None
               /\ b \/ Num(r.req) = MaxPages \/ Max(r.pages) + 1 # r.page
    OBVIOUS
  <2>3. th' = [th EXCEPT ![t].isw = b,
                         ![t].after = IF c THEN "alloc" ELSE "idle",
                         ![t].pc = IF c THEN "send" ELSE "alloc"]
    BY <1>1, <2>1, <2>2 DEF fill_check
  <2>4. \/ c /\ th' = [th EXCEPT ![t] = [r EXCEPT !.isw = b, !.after = "alloc", !.pc = "send"]]
        \/ ~c /\ th' = [th EXCEPT ![t] = [r EXCEPT !.isw = b, !.after = "idle", !.pc = "alloc"]]
    BY <1>1, <2>2, <2>3 DEF WriteInv, TypeOK
  <2>5. r.pc = "fill" /\ UNCHANGED <<dirty, plock, pinned>>
    BY <1>1 DEF fill_check, pageVars, dataVars
  <2> QED
    BY <2>2, <2>4, <2>5
<1>5. ASSUME NEW b \in BOOLEAN, r.pc = "fill", r.req # None,
             UNCHANGED <<dirty, plock, pinned>>,
             th' = [th EXCEPT ![t] = [r EXCEPT !.isw = b, !.after = "alloc", !.pc = "send"]]
      PROVE  TruncInv'
  <2> DEFINE x == [r EXCEPT !.isw = b, !.after = "alloc", !.pc = "send"]
  <2>1. /\ x.op = r.op /\ x.pc = "send" /\ x.page = r.page /\ x.pages = r.pages
        /\ x.req = r.req /\ x.isw = b /\ x.cur = r.cur /\ x.after = "alloc"
        /\ x.crop = r.crop /\ x.old = r.old /\ x.err = r.err /\ x.size = r.size
    BY <1>2 DEF Registers
  <2>1a. th' = [th EXCEPT ![t] = x]
    BY <1>5
  <2> HIDE DEF x
  <2>2. Resting(t, x)
    BY <1>1, <1>2, <1>3, <1>5, <2>1, <2>1a DEF Resting
  <2>3. RegsOf(x, req, isize)
    BY <1>2, <1>5, <2>1 DEF RegsOf, Filling, Releasing, Laundering, MutexOf, Ending, Idle
  <2>4. Awaits(t, x)
    BY <1>1, <1>2, <1>5, <2>1 DEF Awaits, Expected, Releasing, Laundering, RegsOf,
                                  Filling, MutexOf, Ending, Idle, Registers
  <2>5. /\ Holds(x) => Holds(r) /\ x.page = r.page /\ (x.op # "write" => r.op # "write")
        /\ x.pages \subseteq r.pages /\ r.pc # "truncate"
    BY <1>2, <1>5, <2>1 DEF Holds, RegsOf, Filling, MutexOf, Ending
  <2> QED
    BY <1>1, <1>5, <2>2, <2>3, <2>4, <2>5, SameKeeps
<1>6. ASSUME NEW b \in BOOLEAN, r.pc = "fill", UNCHANGED <<dirty, plock, pinned>>,
             th' = [th EXCEPT ![t] = [r EXCEPT !.isw = b, !.after = "idle", !.pc = "alloc"]]
      PROVE  TruncInv'
  <2> DEFINE x == [r EXCEPT !.isw = b, !.after = "idle", !.pc = "alloc"]
  <2>1. /\ x.op = r.op /\ x.pc = "alloc" /\ x.page = r.page /\ x.pages = r.pages
        /\ x.req = r.req /\ x.isw = b /\ x.cur = r.cur /\ x.after = "idle"
        /\ x.crop = r.crop /\ x.old = r.old /\ x.err = r.err /\ x.size = r.size
    BY <1>2 DEF Registers
  <2>1a. th' = [th EXCEPT ![t] = x]
    BY <1>6
  <2> HIDE DEF x
  <2>2. Resting(t, x)
    BY <1>1, <1>2, <1>3, <1>6, <2>1, <2>1a DEF Resting
  <2>3. RegsOf(x, req, isize)
    BY <1>2, <1>6, <2>1 DEF RegsOf, Filling, Releasing, Laundering, MutexOf, Ending, Idle
  <2>4. Awaits(t, x)
    BY <1>1, <1>2, <1>6, <2>1 DEF Awaits, Expected, Releasing, Laundering, RegsOf,
                                  Filling, MutexOf, Ending, Idle, Registers
  <2>5. /\ Holds(x) => Holds(r) /\ x.page = r.page /\ (x.op # "write" => r.op # "write")
        /\ x.pages \subseteq r.pages /\ r.pc # "truncate"
    BY <1>2, <1>6, <2>1 DEF Holds, RegsOf, Filling, MutexOf, Ending
  <2> QED
    BY <1>1, <1>6, <2>2, <2>3, <2>4, <2>5, SameKeeps
<1> QED
  BY <1>4, <1>5, <1>6

LEMMA Trunc_fill_fails ==
    ASSUME WriteInv, TruncInv, WriteInv', NEW t \in Threads, fill_fails(t)
    PROVE  TruncInv'
<1>1. PICK r : r = th[t]
  OBVIOUS
<1>2. /\ r \in Registers /\ MutexOf(t, r, ilock) /\ RegsOf(r, req, isize)
      /\ Holds(r) => plock[r.page] = t
      /\ Holds(r) /\ r.op # "write" => InFile(r.page)
      /\ \A p \in r.pages : InFile(p)
      /\ \A p \in dirty \cup pinned : InFile(p)
      /\ dirty \subseteq Pages /\ pinned \subseteq Pages
  BY <1>1, Facts
<1>3. UNCHANGED <<connected, isize, fclock, req, queued, ssize>>
  BY DEF fill_fails, inodeVars, pageVars, dataVars, reqVars, listVars, srvVars, Goto,
     At, FcLock
<1>4. /\ r.pc = "alloc"
      /\ UNCHANGED <<dirty, pinned>>
      /\ plock' = [plock EXCEPT ![r.page] = None]
      /\ th' = [th EXCEPT ![t] = [r EXCEPT !.pc = "scanned", !.page = 0, !.isw = FALSE, !.err = TRUE]]
  BY <1>1, <1>2 DEF fill_fails, inodeVars, pageVars, dataVars, reqVars, listVars,
                    srvVars, Goto, At, FcLock, WriteInv, TypeOK
<1>5. ASSUME r.pc = "alloc", UNCHANGED <<dirty, pinned>>,
             plock' = [plock EXCEPT ![r.page] = None],
             th' = [th EXCEPT ![t] = [r EXCEPT !.pc = "scanned", !.page = 0, !.isw = FALSE, !.err = TRUE]]
      PROVE  TruncInv'
  <2> DEFINE x == [r EXCEPT !.pc = "scanned", !.page = 0, !.isw = FALSE, !.err = TRUE]
  <2>1. /\ x.op = r.op /\ x.pc = "scanned" /\ x.page = 0 /\ x.pages = r.pages
        /\ x.req = r.req /\ x.isw = FALSE /\ x.cur = r.cur /\ x.after = r.after
        /\ x.crop = r.crop /\ x.old = r.old /\ x.err = TRUE /\ x.size = r.size
    BY <1>2 DEF Registers
  <2>1a. th' = [th EXCEPT ![t] = x]
    BY <1>5
  <2> HIDE DEF x
  <2>2. Resting(t, x)
    BY <1>1, <1>2, <1>3, <1>5, <2>1, <2>1a DEF Resting
  <2>3. RegsOf(x, req, isize)
    BY <1>2, <1>5, <2>1 DEF RegsOf, Filling, Releasing, Laundering, MutexOf, Ending, Idle
  <2>4. Awaits(t, x)
    BY <1>1, <1>2, <1>5, <2>1 DEF Awaits, Expected, Releasing, Laundering, RegsOf,
                                  Filling, MutexOf, Ending, Idle, Registers
  <2>5. Locks(t, x)
    BY <1>1, <1>2, <1>5, <2>1 DEF Locks, Holds, RegsOf, Filling, Registers
  <2>6. Stays(t, x)
    BY <1>1, <1>2, <1>5, <2>1 DEF Stays, Holds, RegsOf, Filling, MutexOf, Ending
  <2> QED
    BY <2>2, <2>3, <2>4, <2>5, <2>6, RestKeeps
<1> QED
  BY <1>4, <1>5

LEMMA Trunc_writepages_last ==
    ASSUME WriteInv, TruncInv, WriteInv', NEW t \in Threads, writepages_last(t)
    PROVE  TruncInv'
<1>1. PICK r : r = th[t]
  OBVIOUS
<1>2. /\ r \in Registers /\ MutexOf(t, r, ilock) /\ RegsOf(r, req, isize)
      /\ Holds(r) => plock[r.page] = t
      /\ Holds(r) /\ r.op # "write" => InFile(r.page)
      /\ \A p \in r.pages : InFile(p)
      /\ \A p \in dirty \cup pinned : InFile(p)
      /\ dirty \subseteq Pages /\ pinned \subseteq Pages
  BY <1>1, Facts
<1>3. UNCHANGED <<connected, isize, fclock, req, queued, ssize>>
  BY DEF writepages_last, inodeVars, pageVars, dataVars, reqVars, listVars, srvVars,
     Goto, At, FcLock
<1>4. \/ /\ r.pc = "scanned"
         /\ r.req # None
         /\ UNCHANGED <<dirty, plock, pinned>>
         /\ th' = [th EXCEPT ![t] = [r EXCEPT !.pc = "send", !.after = "written", !.err = FALSE, !.cur = 0]]
      \/ /\ r.pc = "scanned"
         /\ r.req = None
         /\ UNCHANGED <<dirty, plock, pinned>>
         /\ th' = [th EXCEPT ![t] = [r EXCEPT !.pc = "written", !.cur = 0]]
  BY <1>1, <1>2 DEF writepages_last, inodeVars, pageVars, dataVars, reqVars, listVars,
                    srvVars, Goto, At, FcLock, WriteInv, TypeOK
<1>5. ASSUME r.pc = "scanned", r.req # None, UNCHANGED <<dirty, plock, pinned>>,
             th' = [th EXCEPT ![t] = [r EXCEPT !.pc = "send", !.after = "written", !.err = FALSE, !.cur = 0]]
      PROVE  TruncInv'
  <2> DEFINE x == [r EXCEPT !.pc = "send", !.after = "written", !.err = FALSE, !.cur = 0]
  <2>1. /\ x.op = r.op /\ x.pc = "send" /\ x.page = r.page /\ x.pages = r.pages
        /\ x.req = r.req /\ x.isw = r.isw /\ x.cur = 0 /\ x.after = "written"
        /\ x.crop = r.crop /\ x.old = r.old /\ x.err = FALSE /\ x.size = r.size
    BY <1>2 DEF Registers
  <2>1a. th' = [th EXCEPT ![t] = x]
    BY <1>5
  <2> HIDE DEF x
  <2>2. Resting(t, x)
    BY <1>1, <1>2, <1>3, <1>5, <2>1, <2>1a DEF Resting
  <2>3. RegsOf(x, req, isize)
    BY <1>2, <1>5, <2>1 DEF RegsOf, Filling, Releasing, Laundering, MutexOf, Ending, Idle
  <2>4. Awaits(t, x)
    BY <1>1, <1>2, <1>5, <2>1 DEF Awaits, Expected, Releasing, Laundering, RegsOf,
                                  Filling, MutexOf, Ending, Idle, Registers
  <2>5. /\ Holds(x) => Holds(r) /\ x.page = r.page /\ (x.op # "write" => r.op # "write")
        /\ x.pages \subseteq r.pages /\ r.pc # "truncate"
    BY <1>2, <1>5, <2>1 DEF Holds, RegsOf, Filling, MutexOf, Ending
  <2> QED
    BY <1>1, <1>5, <2>2, <2>3, <2>4, <2>5, SameKeeps
<1>6. ASSUME r.pc = "scanned", r.req = None, UNCHANGED <<dirty, plock, pinned>>,
             th' = [th EXCEPT ![t] = [r EXCEPT !.pc = "written", !.cur = 0]]
      PROVE  TruncInv'
  <2> DEFINE x == [r EXCEPT !.pc = "written", !.cur = 0]
  <2>1. /\ x.op = r.op /\ x.pc = "written" /\ x.page = r.page /\ x.pages = r.pages
        /\ x.req = r.req /\ x.isw = r.isw /\ x.cur = 0 /\ x.after = r.after
        /\ x.crop = r.crop /\ x.old = r.old /\ x.err = r.err /\ x.size = r.size
    BY <1>2 DEF Registers
  <2>1a. th' = [th EXCEPT ![t] = x]
    BY <1>6
  <2> HIDE DEF x
  <2>2. Resting(t, x)
    BY <1>1, <1>2, <1>3, <1>6, <2>1, <2>1a DEF Resting
  <2>3. RegsOf(x, req, isize)
    BY <1>2, <1>6, <2>1 DEF RegsOf, Filling, Releasing, Laundering, MutexOf, Ending, Idle
  <2>4. Awaits(t, x)
    BY <1>1, <1>2, <1>6, <2>1 DEF Awaits, Expected, Releasing, Laundering, RegsOf,
                                  Filling, MutexOf, Ending, Idle, Registers
  <2>5. /\ Holds(x) => Holds(r) /\ x.page = r.page /\ (x.op # "write" => r.op # "write")
        /\ x.pages \subseteq r.pages /\ r.pc # "truncate"
    BY <1>2, <1>6, <2>1 DEF Holds, RegsOf, Filling, MutexOf, Ending
  <2> QED
    BY <1>1, <1>6, <2>2, <2>3, <2>4, <2>5, SameKeeps
<1> QED
  BY <1>4, <1>5, <1>6

LEMMA Trunc_flush_end ==
    ASSUME WriteInv, TruncInv, WriteInv', NEW t \in Threads, flush_end(t)
    PROVE  TruncInv'
<1>1. PICK r : r = th[t]
  OBVIOUS
<1>2. /\ r \in Registers /\ MutexOf(t, r, ilock) /\ RegsOf(r, req, isize)
      /\ Holds(r) => plock[r.page] = t
      /\ Holds(r) /\ r.op # "write" => InFile(r.page)
      /\ \A p \in r.pages : InFile(p)
      /\ \A p \in dirty \cup pinned : InFile(p)
      /\ dirty \subseteq Pages /\ pinned \subseteq Pages
  BY <1>1, Facts
<1>3. UNCHANGED <<connected, isize, fclock, req, queued, ssize>>
  BY DEF flush_end, inodeVars, pageVars, dataVars, reqVars, listVars, srvVars, Goto,
     At, FcLock
<1>4. /\ r.pc = "written"
      /\ r.op = "flush"
      /\ UNCHANGED <<dirty, plock, pinned>>
      /\ th' = [th EXCEPT ![t] = Idle]
  BY <1>1, <1>2 DEF flush_end, inodeVars, pageVars, dataVars, reqVars, listVars,
                    srvVars, Goto, At, FcLock, WriteInv, TypeOK
<1>5. ASSUME r.pc = "written", r.op = "flush", UNCHANGED <<dirty, plock, pinned>>,
             th' = [th EXCEPT ![t] = Idle]
      PROVE  TruncInv'
  <2> DEFINE x == Idle
  <2>1. /\ x = Idle /\ x.op = "none" /\ x.pc = "idle" /\ x.pages = {}
        /\ RegsOf(x, req, isize)
    BY IdleRegs DEF Idle
  <2>1a. th' = [th EXCEPT ![t] = x]
    BY <1>5
  <2> HIDE DEF x
  <2>2. Resting(t, x)
    BY <1>1, <1>2, <1>3, <1>5, <2>1, <2>1a DEF Resting
  <2>3. Awaits(t, x)
    BY <1>1, <1>2, <1>5, <2>1 DEF Awaits, Expected, Releasing, Laundering, RegsOf,
                                  Filling, MutexOf, Ending, Idle, Registers
  <2>4. /\ Holds(x) => Holds(r) /\ x.page = r.page /\ (x.op # "write" => r.op # "write")
        /\ x.pages \subseteq r.pages /\ r.pc # "truncate"
    BY <1>2, <1>5, <2>1 DEF Holds, RegsOf, Filling, MutexOf, Ending
  <2> QED
    BY <1>1, <1>5, <2>2, <2>1, <2>3, <2>4, SameKeeps
<1> QED
  BY <1>4, <1>5

LEMMA Trunc_reclaim_begin ==
    ASSUME WriteInv, TruncInv, WriteInv', NEW t \in Threads, NEW p \in Pages,
           reclaim_begin(t, p)
    PROVE  TruncInv'
<1>1. PICK r : r = th[t]
  OBVIOUS
<1>2. /\ r \in Registers /\ MutexOf(t, r, ilock) /\ RegsOf(r, req, isize)
      /\ Holds(r) => plock[r.page] = t
      /\ Holds(r) /\ r.op # "write" => InFile(r.page)
      /\ \A n \in r.pages : InFile(n)
      /\ \A n \in dirty \cup pinned : InFile(n)
      /\ dirty \subseteq Pages /\ pinned \subseteq Pages
  BY <1>1, Facts
<1>3. UNCHANGED <<connected, isize, fclock, req, queued, ssize>>
  BY DEF reclaim_begin, inodeVars, pageVars, dataVars, reqVars, listVars, srvVars,
     Goto, At, FcLock
<1>4. /\ r.pc = "idle"
      /\ p \in dirty
      /\ plock[p] = None
      /\ plock' = [plock EXCEPT ![p] = t]
      /\ dirty' = dirty \ {p}
      /\ UNCHANGED pinned
      /\ th' = [th EXCEPT ![t] = [r EXCEPT !.op = "reclaim", !.pc = "writepage", !.page = p]]
  BY <1>1, <1>2 DEF reclaim_begin, inodeVars, pageVars, dataVars, reqVars, listVars,
                    srvVars, Goto, At, FcLock, WriteInv, TypeOK
<1>5. ASSUME r.pc = "idle", p \in dirty, plock[p] = None,
             plock' = [plock EXCEPT ![p] = t], dirty' = dirty \ {p}, UNCHANGED pinned,
             th' = [th EXCEPT ![t] = [r EXCEPT !.op = "reclaim", !.pc = "writepage", !.page = p]]
      PROVE  TruncInv'
  <2> DEFINE x == [r EXCEPT !.op = "reclaim", !.pc = "writepage", !.page = p]
  <2>1. /\ x.op = "reclaim" /\ x.pc = "writepage" /\ x.page = p /\ x.pages = r.pages
        /\ x.req = r.req /\ x.isw = r.isw /\ x.cur = r.cur /\ x.after = r.after
        /\ x.crop = r.crop /\ x.old = r.old /\ x.err = r.err /\ x.size = r.size
    BY <1>2 DEF Registers
  <2>1a. th' = [th EXCEPT ![t] = x]
    BY <1>5
  <2> HIDE DEF x
  <2>2. Resting(t, x)
    BY <1>1, <1>2, <1>3, <1>5, <2>1, <2>1a DEF Resting
  <2>3. RegsOf(x, req, isize)
    BY <1>2, <1>5, <2>1 DEF RegsOf, Filling, Releasing, Laundering, MutexOf, Ending, Idle
  <2>4. Awaits(t, x)
    BY <1>1, <1>2, <1>5, <2>1 DEF Awaits, Expected, Releasing, Laundering, RegsOf,
                                  Filling, MutexOf, Ending, Idle, Registers
  <2>5. Locks(t, x)
    BY <1>1, <1>2, <1>5, <2>1 DEF Locks, Holds, RegsOf, Filling, Registers
  <2>6. Stays(t, x)
    BY <1>1, <1>2, <1>5, <2>1 DEF Stays, Holds, RegsOf, Filling, MutexOf, Ending
  <2> QED
    BY <2>2, <2>3, <2>4, <2>5, <2>6, RestKeeps
<1> QED
  BY <1>4, <1>5

LEMMA Trunc_fuse_writepage ==
    ASSUME WriteInv, TruncInv, WriteInv', NEW t \in Threads, fuse_writepage(t)
    PROVE  TruncInv'
<1>1. PICK r : r = th[t]
  OBVIOUS
<1>2. /\ r \in Registers /\ MutexOf(t, r, ilock) /\ RegsOf(r, req, isize)
      /\ Holds(r) => plock[r.page] = t
      /\ Holds(r) /\ r.op # "write" => InFile(r.page)
      /\ \A p \in r.pages : InFile(p)
      /\ \A p \in dirty \cup pinned : InFile(p)
      /\ dirty \subseteq Pages /\ pinned \subseteq Pages
  BY <1>1, Facts
<1>3. UNCHANGED <<connected, isize, fclock, req, queued, ssize>>
  BY DEF fuse_writepage, inodeVars, pageVars, dataVars, reqVars, listVars, srvVars,
     Goto, At, FcLock
<1>4. \/ /\ r.pc = "writepage"
         /\ dirty' = dirty \cup {r.page}
         /\ UNCHANGED <<plock, pinned>>
         /\ th' = [th EXCEPT ![t] = Idle]
      \/ /\ r.pc = "writepage"
         /\ UNCHANGED <<dirty, plock, pinned>>
         /\ th' = [th EXCEPT ![t] = [r EXCEPT !.pc = "locked", !.pages = {r.page}, !.after = "reclaimed"]]
  BY <1>1, <1>2 DEF fuse_writepage, inodeVars, pageVars, dataVars, reqVars, listVars,
                    srvVars, Goto, At, FcLock, WriteInv, TypeOK
<1>5. ASSUME r.pc = "writepage", dirty' = dirty \cup {r.page},
             UNCHANGED <<plock, pinned>>, th' = [th EXCEPT ![t] = Idle]
      PROVE  TruncInv'
  <2> DEFINE x == Idle
  <2>1. /\ x = Idle /\ x.op = "none" /\ x.pc = "idle" /\ x.pages = {}
        /\ RegsOf(x, req, isize)
    BY IdleRegs DEF Idle
  <2>1a. th' = [th EXCEPT ![t] = x]
    BY <1>5
  <2> HIDE DEF x
  <2>2. Resting(t, x)
    BY <1>1, <1>2, <1>3, <1>5, <2>1, <2>1a DEF Resting
  <2>3. Awaits(t, x)
    BY <1>1, <1>2, <1>5, <2>1 DEF Awaits, Expected, Releasing, Laundering, RegsOf,
                                  Filling, MutexOf, Ending, Idle, Registers
  <2>4. Locks(t, x)
    BY <1>1, <1>2, <1>5, <2>1 DEF Locks, Holds, RegsOf, Filling, Registers
  <2>5. Stays(t, x)
    BY <1>1, <1>2, <1>5, <2>1 DEF Stays, Holds, RegsOf, Filling, MutexOf, Ending
  <2> QED
    BY <2>2, <2>1, <2>3, <2>4, <2>5, RestKeeps
<1>6. ASSUME r.pc = "writepage", UNCHANGED <<dirty, plock, pinned>>,
             th' = [th EXCEPT ![t] = [r EXCEPT !.pc = "locked", !.pages = {r.page}, !.after = "reclaimed"]]
      PROVE  TruncInv'
  <2> DEFINE x == [r EXCEPT !.pc = "locked", !.pages = {r.page}, !.after = "reclaimed"]
  <2>1. /\ x.op = r.op /\ x.pc = "locked" /\ x.page = r.page /\ x.pages = {r.page}
        /\ x.req = r.req /\ x.isw = r.isw /\ x.cur = r.cur /\ x.after = "reclaimed"
        /\ x.crop = r.crop /\ x.old = r.old /\ x.err = r.err /\ x.size = r.size
    BY <1>2 DEF Registers
  <2>1a. th' = [th EXCEPT ![t] = x]
    BY <1>6
  <2> HIDE DEF x
  <2>2. Resting(t, x)
    BY <1>1, <1>2, <1>3, <1>6, <2>1, <2>1a DEF Resting
  <2>3. RegsOf(x, req, isize)
    BY <1>2, <1>6, <2>1 DEF RegsOf, Filling, Releasing, Laundering, MutexOf, Ending, Idle
  <2>4. Awaits(t, x)
    BY <1>1, <1>2, <1>6, <2>1 DEF Awaits, Expected, Releasing, Laundering, RegsOf,
                                  Filling, MutexOf, Ending, Idle, Registers
  <2>5. Locks(t, x)
    BY <1>1, <1>2, <1>6, <2>1 DEF Locks, Holds, RegsOf, Filling, Registers
  <2>6. Stays(t, x)
    BY <1>1, <1>2, <1>6, <2>1 DEF Stays, Holds, RegsOf, Filling, MutexOf, Ending
  <2> QED
    BY <2>2, <2>3, <2>4, <2>5, <2>6, RestKeeps
<1> QED
  BY <1>4, <1>5, <1>6

LEMMA Trunc_writepage_fails ==
    ASSUME WriteInv, TruncInv, WriteInv', NEW t \in Threads, writepage_fails(t)
    PROVE  TruncInv'
<1>1. PICK r : r = th[t]
  OBVIOUS
<1>2. /\ r \in Registers /\ MutexOf(t, r, ilock) /\ RegsOf(r, req, isize)
      /\ Holds(r) => plock[r.page] = t
      /\ Holds(r) /\ r.op # "write" => InFile(r.page)
      /\ \A p \in r.pages : InFile(p)
      /\ \A p \in dirty \cup pinned : InFile(p)
      /\ dirty \subseteq Pages /\ pinned \subseteq Pages
  BY <1>1, Facts
<1>3. UNCHANGED <<connected, isize, fclock, req, queued, ssize>>
  BY DEF writepage_fails, inodeVars, pageVars, dataVars, reqVars, listVars, srvVars,
     Goto, At, FcLock
<1>4. /\ r.pc = "locked"
      /\ UNCHANGED <<dirty, plock, pinned>>
      /\ th' = [th EXCEPT ![t] = [r EXCEPT !.pc = r.after, !.after = "idle", !.pages = {}, !.err = TRUE]]
  BY <1>1, <1>2 DEF writepage_fails, inodeVars, pageVars, dataVars, reqVars, listVars,
                    srvVars, Goto, At, FcLock, Lose, WriteInv, TypeOK
<1>5. ASSUME r.pc = "locked", UNCHANGED <<dirty, plock, pinned>>,
             th' = [th EXCEPT ![t] = [r EXCEPT !.pc = r.after, !.after = "idle", !.pages = {}, !.err = TRUE]]
      PROVE  TruncInv'
  <2> DEFINE x == [r EXCEPT !.pc = r.after, !.after = "idle", !.pages = {}, !.err = TRUE]
  <2>1. /\ x.op = r.op /\ x.pc = r.after /\ x.page = r.page /\ x.pages = {}
        /\ x.req = r.req /\ x.isw = r.isw /\ x.cur = r.cur /\ x.after = "idle"
        /\ x.crop = r.crop /\ x.old = r.old /\ x.err = TRUE /\ x.size = r.size
    BY <1>2 DEF Registers
  <2>1a. th' = [th EXCEPT ![t] = x]
    BY <1>5
  <2> HIDE DEF x
  <2>2. Resting(t, x)
    BY <1>1, <1>2, <1>3, <1>5, <2>1, <2>1a DEF Resting, MutexOf, Ending
  <2>3. RegsOf(x, req, isize)
    BY <1>2, <1>5, <2>1 DEF RegsOf, Filling, Releasing, Laundering, MutexOf, Ending, Idle
  <2>4. Awaits(t, x)
    BY <1>1, <1>2, <1>5, <2>1 DEF Awaits, Expected, Releasing, Laundering, RegsOf,
                                  Filling, MutexOf, Ending, Idle, Registers
  <2>5. /\ Holds(x) => Holds(r) /\ x.page = r.page /\ (x.op # "write" => r.op # "write")
        /\ x.pages \subseteq r.pages /\ r.pc # "truncate"
    BY <1>2, <1>5, <2>1 DEF Holds, RegsOf, Filling, MutexOf, Ending
  <2> QED
    BY <1>1, <1>5, <2>2, <2>3, <2>4, <2>5, SameKeeps
<1> QED
  BY <1>4, <1>5

LEMMA Trunc_reclaim_end ==
    ASSUME WriteInv, TruncInv, WriteInv', NEW t \in Threads, reclaim_end(t)
    PROVE  TruncInv'
<1>1. PICK r : r = th[t]
  OBVIOUS
<1>2. /\ r \in Registers /\ MutexOf(t, r, ilock) /\ RegsOf(r, req, isize)
      /\ Holds(r) => plock[r.page] = t
      /\ Holds(r) /\ r.op # "write" => InFile(r.page)
      /\ \A p \in r.pages : InFile(p)
      /\ \A p \in dirty \cup pinned : InFile(p)
      /\ dirty \subseteq Pages /\ pinned \subseteq Pages
  BY <1>1, Facts
<1>3. UNCHANGED <<connected, isize, fclock, req, queued, ssize>>
  BY DEF reclaim_end, inodeVars, pageVars, dataVars, reqVars, listVars, srvVars, Goto,
     At, FcLock
<1>4. /\ r.pc = "reclaimed"
      /\ r.op = "reclaim"
      /\ UNCHANGED <<dirty, pinned>>
      /\ plock' = [plock EXCEPT ![r.page] = None]
      /\ th' = [th EXCEPT ![t] = Idle]
  BY <1>1, <1>2 DEF reclaim_end, inodeVars, pageVars, dataVars, reqVars, listVars,
                    srvVars, Goto, At, FcLock, WriteInv, TypeOK
<1>5. ASSUME r.pc = "reclaimed", r.op = "reclaim", UNCHANGED <<dirty, pinned>>,
             plock' = [plock EXCEPT ![r.page] = None], th' = [th EXCEPT ![t] = Idle]
      PROVE  TruncInv'
  <2> DEFINE x == Idle
  <2>1. /\ x = Idle /\ x.op = "none" /\ x.pc = "idle" /\ x.pages = {}
        /\ RegsOf(x, req, isize)
    BY IdleRegs DEF Idle
  <2>1a. th' = [th EXCEPT ![t] = x]
    BY <1>5
  <2> HIDE DEF x
  <2>2. Resting(t, x)
    BY <1>1, <1>2, <1>3, <1>5, <2>1, <2>1a DEF Resting
  <2>3. Awaits(t, x)
    BY <1>1, <1>2, <1>5, <2>1 DEF Awaits, Expected, Releasing, Laundering, RegsOf,
                                  Filling, MutexOf, Ending, Idle, Registers
  <2>4. Locks(t, x)
    BY <1>1, <1>2, <1>5, <2>1 DEF Locks, Holds, RegsOf, Filling, Registers
  <2>5. Stays(t, x)
    BY <1>1, <1>2, <1>5, <2>1 DEF Stays, Holds, RegsOf, Filling, MutexOf, Ending
  <2> QED
    BY <2>2, <2>1, <2>3, <2>4, <2>5, RestKeeps
<1> QED
  BY <1>4, <1>5

LEMMA Trunc_fuse_wait_on_page_writeback ==
    ASSUME WriteInv, TruncInv, WriteInv', NEW t \in Threads,
           fuse_wait_on_page_writeback(t)
    PROVE  TruncInv'
<1>1. PICK r : r = th[t]
  OBVIOUS
<1>2. /\ r \in Registers /\ MutexOf(t, r, ilock) /\ RegsOf(r, req, isize)
      /\ Holds(r) => plock[r.page] = t
      /\ Holds(r) /\ r.op # "write" => InFile(r.page)
      /\ \A p \in r.pages : InFile(p)
      /\ \A p \in dirty \cup pinned : InFile(p)
      /\ dirty \subseteq Pages /\ pinned \subseteq Pages
  BY <1>1, Facts
<1>3. UNCHANGED <<connected, isize, fclock, req, queued, ssize>>
  BY DEF fuse_wait_on_page_writeback, inodeVars, pageVars, dataVars, reqVars, listVars,
     srvVars, Goto, At, FcLock
<1>4. \/ /\ UNCHANGED <<dirty, plock, pinned>>
         /\ th' = th
      \/ /\ r.pc = "waitpage"
         /\ UNCHANGED <<dirty, plock, pinned>>
         /\ th' = [th EXCEPT ![t] = [r EXCEPT !.pc = r.after, !.after = "idle"]]
  BY <1>1, <1>2 DEF fuse_wait_on_page_writeback, inodeVars, pageVars, dataVars,
                    reqVars, listVars, srvVars, Goto, At, FcLock, WriteInv, TypeOK
<1>5. ASSUME UNCHANGED <<dirty, plock, pinned>>, th' = th
      PROVE  TruncInv'
  BY <1>3, <1>5, UnmovedKeeps
<1>6. ASSUME r.pc = "waitpage", UNCHANGED <<dirty, plock, pinned>>,
             th' = [th EXCEPT ![t] = [r EXCEPT !.pc = r.after, !.after = "idle"]]
      PROVE  TruncInv'
  <2> DEFINE x == [r EXCEPT !.pc = r.after, !.after = "idle"]
  <2>1. /\ x.op = r.op /\ x.pc = r.after /\ x.page = r.page /\ x.pages = r.pages
        /\ x.req = r.req /\ x.isw = r.isw /\ x.cur = r.cur /\ x.after = "idle"
        /\ x.crop = r.crop /\ x.old = r.old /\ x.err = r.err /\ x.size = r.size
    BY <1>2 DEF Registers
  <2>1a. th' = [th EXCEPT ![t] = x]
    BY <1>6
  <2> HIDE DEF x
  <2>2. Resting(t, x)
    BY <1>1, <1>2, <1>3, <1>6, <2>1, <2>1a DEF Resting, MutexOf, Ending
  <2>3. RegsOf(x, req, isize)
    BY <1>2, <1>6, <2>1 DEF RegsOf, Filling, Releasing, Laundering, MutexOf, Ending, Idle
  <2>4. Awaits(t, x)
    BY <1>1, <1>2, <1>6, <2>1 DEF Awaits, Expected, Releasing, Laundering, RegsOf,
                                  Filling, MutexOf, Ending, Idle, Registers
  <2>5. /\ Holds(x) => Holds(r) /\ x.page = r.page /\ (x.op # "write" => r.op # "write")
        /\ x.pages \subseteq r.pages /\ r.pc # "truncate"
    BY <1>2, <1>6, <2>1 DEF Holds, RegsOf, Filling, MutexOf, Ending
  <2> QED
    BY <1>1, <1>6, <2>2, <2>3, <2>4, <2>5, SameKeeps
<1> QED
  BY <1>4, <1>5, <1>6

LEMMA Trunc_fuse_set_nowrite ==
    ASSUME WriteInv, TruncInv, WriteInv', NEW t \in Threads, fuse_set_nowrite(t)
    PROVE  TruncInv'
<1>1. PICK r : r = th[t]
  OBVIOUS
<1>2. /\ r \in Registers /\ MutexOf(t, r, ilock) /\ RegsOf(r, req, isize)
      /\ Holds(r) => plock[r.page] = t
      /\ Holds(r) /\ r.op # "write" => InFile(r.page)
      /\ \A p \in r.pages : InFile(p)
      /\ \A p \in dirty \cup pinned : InFile(p)
      /\ dirty \subseteq Pages /\ pinned \subseteq Pages
  BY <1>1, Facts
<1>3. UNCHANGED <<connected, isize, fclock, req, queued, ssize>>
  BY DEF fuse_set_nowrite, inodeVars, pageVars, dataVars, reqVars, listVars, srvVars,
     Goto, At, FcLock
<1>4. /\ r.pc = "nowrite"
      /\ UNCHANGED <<dirty, plock, pinned>>
      /\ th' = [th EXCEPT ![t] = [r EXCEPT !.pc = "waitwrites"]]
  BY <1>1, <1>2 DEF fuse_set_nowrite, inodeVars, pageVars, dataVars, reqVars, listVars,
                    srvVars, Goto, At, FcLock, WriteInv, TypeOK
<1>5. ASSUME r.pc = "nowrite", UNCHANGED <<dirty, plock, pinned>>,
             th' = [th EXCEPT ![t] = [r EXCEPT !.pc = "waitwrites"]]
      PROVE  TruncInv'
  <2> DEFINE x == [r EXCEPT !.pc = "waitwrites"]
  <2>1. /\ x.op = r.op /\ x.pc = "waitwrites" /\ x.page = r.page /\ x.pages = r.pages
        /\ x.req = r.req /\ x.isw = r.isw /\ x.cur = r.cur /\ x.after = r.after
        /\ x.crop = r.crop /\ x.old = r.old /\ x.err = r.err /\ x.size = r.size
    BY <1>2 DEF Registers
  <2>1a. th' = [th EXCEPT ![t] = x]
    BY <1>5
  <2> HIDE DEF x
  <2>2. Resting(t, x)
    BY <1>1, <1>2, <1>3, <1>5, <2>1, <2>1a DEF Resting
  <2>3. RegsOf(x, req, isize)
    BY <1>2, <1>5, <2>1 DEF RegsOf, Filling, Releasing, Laundering, MutexOf, Ending, Idle
  <2>4. Awaits(t, x)
    BY <1>1, <1>2, <1>5, <2>1 DEF Awaits, Expected, Releasing, Laundering, RegsOf,
                                  Filling, MutexOf, Ending, Idle, Registers
  <2>5. /\ Holds(x) => Holds(r) /\ x.page = r.page /\ (x.op # "write" => r.op # "write")
        /\ x.pages \subseteq r.pages /\ r.pc # "truncate"
    BY <1>2, <1>5, <2>1 DEF Holds, RegsOf, Filling, MutexOf, Ending
  <2> QED
    BY <1>1, <1>5, <2>2, <2>3, <2>4, <2>5, SameKeeps
<1> QED
  BY <1>4, <1>5

LEMMA Trunc_set_nowrite_wait ==
    ASSUME WriteInv, TruncInv, WriteInv', NEW t \in Threads, set_nowrite_wait(t)
    PROVE  TruncInv'
<1>1. PICK r : r = th[t]
  OBVIOUS
<1>2. /\ r \in Registers /\ MutexOf(t, r, ilock) /\ RegsOf(r, req, isize)
      /\ Holds(r) => plock[r.page] = t
      /\ Holds(r) /\ r.op # "write" => InFile(r.page)
      /\ \A p \in r.pages : InFile(p)
      /\ \A p \in dirty \cup pinned : InFile(p)
      /\ dirty \subseteq Pages /\ pinned \subseteq Pages
  BY <1>1, Facts
<1>3. UNCHANGED <<connected, isize, fclock, req, queued, ssize>>
  BY DEF set_nowrite_wait, inodeVars, pageVars, dataVars, reqVars, listVars, srvVars,
     Goto, At, FcLock
<1>4. \/ /\ UNCHANGED <<dirty, plock, pinned>>
         /\ th' = th
      \/ /\ r.pc = "waitwrites"
         /\ UNCHANGED <<dirty, plock, pinned>>
         /\ th' = [th EXCEPT ![t] = [r EXCEPT !.pc = "section"]]
  BY <1>1, <1>2 DEF set_nowrite_wait, inodeVars, pageVars, dataVars, reqVars, listVars,
                    srvVars, Goto, At, FcLock, WriteInv, TypeOK
<1>5. ASSUME UNCHANGED <<dirty, plock, pinned>>, th' = th
      PROVE  TruncInv'
  BY <1>3, <1>5, UnmovedKeeps
<1>6. ASSUME r.pc = "waitwrites", UNCHANGED <<dirty, plock, pinned>>,
             th' = [th EXCEPT ![t] = [r EXCEPT !.pc = "section"]]
      PROVE  TruncInv'
  <2> DEFINE x == [r EXCEPT !.pc = "section"]
  <2>1. /\ x.op = r.op /\ x.pc = "section" /\ x.page = r.page /\ x.pages = r.pages
        /\ x.req = r.req /\ x.isw = r.isw /\ x.cur = r.cur /\ x.after = r.after
        /\ x.crop = r.crop /\ x.old = r.old /\ x.err = r.err /\ x.size = r.size
    BY <1>2 DEF Registers
  <2>1a. th' = [th EXCEPT ![t] = x]
    BY <1>6
  <2> HIDE DEF x
  <2>2. Resting(t, x)
    BY <1>1, <1>2, <1>3, <1>6, <2>1, <2>1a DEF Resting
  <2>3. RegsOf(x, req, isize)
    BY <1>2, <1>6, <2>1 DEF RegsOf, Filling, Releasing, Laundering, MutexOf, Ending, Idle
  <2>4. Awaits(t, x)
    BY <1>1, <1>2, <1>6, <2>1 DEF Awaits, Expected, Releasing, Laundering, RegsOf,
                                  Filling, MutexOf, Ending, Idle, Registers
  <2>5. /\ Holds(x) => Holds(r) /\ x.page = r.page /\ (x.op # "write" => r.op # "write")
        /\ x.pages \subseteq r.pages /\ r.pc # "truncate"
    BY <1>2, <1>6, <2>1 DEF Holds, RegsOf, Filling, MutexOf, Ending
  <2> QED
    BY <1>1, <1>6, <2>2, <2>3, <2>4, <2>5, SameKeeps
<1> QED
  BY <1>4, <1>5, <1>6

LEMMA Trunc_fsync_wait ==
    ASSUME WriteInv, TruncInv, WriteInv', NEW t \in Threads, fsync_wait(t)
    PROVE  TruncInv'
<1>1. PICK r : r = th[t]
  OBVIOUS
<1>2. /\ r \in Registers /\ MutexOf(t, r, ilock) /\ RegsOf(r, req, isize)
      /\ Holds(r) => plock[r.page] = t
      /\ Holds(r) /\ r.op # "write" => InFile(r.page)
      /\ \A p \in r.pages : InFile(p)
      /\ \A p \in dirty \cup pinned : InFile(p)
      /\ dirty \subseteq Pages /\ pinned \subseteq Pages
  BY <1>1, Facts
<1>3. UNCHANGED <<connected, isize, fclock, req, queued, ssize>>
  BY DEF fsync_wait, inodeVars, pageVars, dataVars, reqVars, listVars, srvVars, Goto,
     At, FcLock
<1>4. \/ /\ r.pc = "written"
         /\ r.op = "fsync"
         /\ UNCHANGED <<dirty, plock, pinned>>
         /\ th' = [th EXCEPT ![t] = Idle]
      \/ /\ r.pc = "written"
         /\ r.op = "fsync"
         /\ UNCHANGED <<dirty, plock, pinned>>
         /\ th' = [th EXCEPT ![t] = [r EXCEPT !.pc = "nowrite"]]
  BY <1>1, <1>2 DEF fsync_wait, inodeVars, pageVars, dataVars, reqVars, listVars,
                    srvVars, Goto, At, FcLock, fsync_return, WriteInv, TypeOK
<1>5. ASSUME r.pc = "written", r.op = "fsync", UNCHANGED <<dirty, plock, pinned>>,
             th' = [th EXCEPT ![t] = Idle]
      PROVE  TruncInv'
  <2> DEFINE x == Idle
  <2>1. /\ x = Idle /\ x.op = "none" /\ x.pc = "idle" /\ x.pages = {}
        /\ RegsOf(x, req, isize)
    BY IdleRegs DEF Idle
  <2>1a. th' = [th EXCEPT ![t] = x]
    BY <1>5
  <2> HIDE DEF x
  <2>2. Resting(t, x)
    BY <1>1, <1>2, <1>3, <1>5, <2>1, <2>1a DEF Resting
  <2>3. Awaits(t, x)
    BY <1>1, <1>2, <1>5, <2>1 DEF Awaits, Expected, Releasing, Laundering, RegsOf,
                                  Filling, MutexOf, Ending, Idle, Registers
  <2>4. /\ Holds(x) => Holds(r) /\ x.page = r.page /\ (x.op # "write" => r.op # "write")
        /\ x.pages \subseteq r.pages /\ r.pc # "truncate"
    BY <1>2, <1>5, <2>1 DEF Holds, RegsOf, Filling, MutexOf, Ending
  <2> QED
    BY <1>1, <1>5, <2>2, <2>1, <2>3, <2>4, SameKeeps
<1>6. ASSUME r.pc = "written", r.op = "fsync", UNCHANGED <<dirty, plock, pinned>>,
             th' = [th EXCEPT ![t] = [r EXCEPT !.pc = "nowrite"]]
      PROVE  TruncInv'
  <2> DEFINE x == [r EXCEPT !.pc = "nowrite"]
  <2>1. /\ x.op = r.op /\ x.pc = "nowrite" /\ x.page = r.page /\ x.pages = r.pages
        /\ x.req = r.req /\ x.isw = r.isw /\ x.cur = r.cur /\ x.after = r.after
        /\ x.crop = r.crop /\ x.old = r.old /\ x.err = r.err /\ x.size = r.size
    BY <1>2 DEF Registers
  <2>1a. th' = [th EXCEPT ![t] = x]
    BY <1>6
  <2> HIDE DEF x
  <2>2. Resting(t, x)
    BY <1>1, <1>2, <1>3, <1>6, <2>1, <2>1a DEF Resting
  <2>3. RegsOf(x, req, isize)
    BY <1>2, <1>6, <2>1 DEF RegsOf, Filling, Releasing, Laundering, MutexOf, Ending, Idle
  <2>4. Awaits(t, x)
    BY <1>1, <1>2, <1>6, <2>1 DEF Awaits, Expected, Releasing, Laundering, RegsOf,
                                  Filling, MutexOf, Ending, Idle, Registers
  <2>5. /\ Holds(x) => Holds(r) /\ x.page = r.page /\ (x.op # "write" => r.op # "write")
        /\ x.pages \subseteq r.pages /\ r.pc # "truncate"
    BY <1>2, <1>6, <2>1 DEF Holds, RegsOf, Filling, MutexOf, Ending
  <2> QED
    BY <1>1, <1>6, <2>2, <2>3, <2>4, <2>5, SameKeeps
<1> QED
  BY <1>4, <1>5, <1>6

LEMMA Trunc_fsync_check ==
    ASSUME WriteInv, TruncInv, WriteInv', NEW t \in Threads, fsync_check(t)
    PROVE  TruncInv'
<1>1. PICK r : r = th[t]
  OBVIOUS
<1>2. /\ r \in Registers /\ MutexOf(t, r, ilock) /\ RegsOf(r, req, isize)
      /\ Holds(r) => plock[r.page] = t
      /\ Holds(r) /\ r.op # "write" => InFile(r.page)
      /\ \A p \in r.pages : InFile(p)
      /\ \A p \in dirty \cup pinned : InFile(p)
      /\ dirty \subseteq Pages /\ pinned \subseteq Pages
  BY <1>1, Facts
<1>3. UNCHANGED <<connected, isize, fclock, req, queued, ssize>>
  BY DEF fsync_check, inodeVars, pageVars, dataVars, reqVars, listVars, srvVars, Goto,
     At, FcLock
<1>4. \/ /\ r.pc = "synced"
         /\ r.op = "fsync"
         /\ UNCHANGED <<dirty, plock, pinned>>
         /\ th' = [th EXCEPT ![t] = Idle]
      \/ /\ r.pc = "synced"
         /\ r.op = "fsync"
         /\ UNCHANGED <<dirty, plock, pinned>>
         /\ th' = [th EXCEPT ![t] = [r EXCEPT !.pc = "durable"]]
  BY <1>1, <1>2 DEF fsync_check, inodeVars, pageVars, dataVars, reqVars, listVars,
                    srvVars, Goto, At, FcLock, fsync_return, WriteInv, TypeOK
<1>5. ASSUME r.pc = "synced", r.op = "fsync", UNCHANGED <<dirty, plock, pinned>>,
             th' = [th EXCEPT ![t] = Idle]
      PROVE  TruncInv'
  <2> DEFINE x == Idle
  <2>1. /\ x = Idle /\ x.op = "none" /\ x.pc = "idle" /\ x.pages = {}
        /\ RegsOf(x, req, isize)
    BY IdleRegs DEF Idle
  <2>1a. th' = [th EXCEPT ![t] = x]
    BY <1>5
  <2> HIDE DEF x
  <2>2. Resting(t, x)
    BY <1>1, <1>2, <1>3, <1>5, <2>1, <2>1a DEF Resting
  <2>3. Awaits(t, x)
    BY <1>1, <1>2, <1>5, <2>1 DEF Awaits, Expected, Releasing, Laundering, RegsOf,
                                  Filling, MutexOf, Ending, Idle, Registers
  <2>4. /\ Holds(x) => Holds(r) /\ x.page = r.page /\ (x.op # "write" => r.op # "write")
        /\ x.pages \subseteq r.pages /\ r.pc # "truncate"
    BY <1>2, <1>5, <2>1 DEF Holds, RegsOf, Filling, MutexOf, Ending
  <2> QED
    BY <1>1, <1>5, <2>2, <2>1, <2>3, <2>4, SameKeeps
<1>6. ASSUME r.pc = "synced", r.op = "fsync", UNCHANGED <<dirty, plock, pinned>>,
             th' = [th EXCEPT ![t] = [r EXCEPT !.pc = "durable"]]
      PROVE  TruncInv'
  <2> DEFINE x == [r EXCEPT !.pc = "durable"]
  <2>1. /\ x.op = r.op /\ x.pc = "durable" /\ x.page = r.page /\ x.pages = r.pages
        /\ x.req = r.req /\ x.isw = r.isw /\ x.cur = r.cur /\ x.after = r.after
        /\ x.crop = r.crop /\ x.old = r.old /\ x.err = r.err /\ x.size = r.size
    BY <1>2 DEF Registers
  <2>1a. th' = [th EXCEPT ![t] = x]
    BY <1>6
  <2> HIDE DEF x
  <2>2. Resting(t, x)
    BY <1>1, <1>2, <1>3, <1>6, <2>1, <2>1a DEF Resting
  <2>3. RegsOf(x, req, isize)
    BY <1>2, <1>6, <2>1 DEF RegsOf, Filling, Releasing, Laundering, MutexOf, Ending, Idle
  <2>4. Awaits(t, x)
    BY <1>1, <1>2, <1>6, <2>1 DEF Awaits, Expected, Releasing, Laundering, RegsOf,
                                  Filling, MutexOf, Ending, Idle, Registers
  <2>5. /\ Holds(x) => Holds(r) /\ x.page = r.page /\ (x.op # "write" => r.op # "write")
        /\ x.pages \subseteq r.pages /\ r.pc # "truncate"
    BY <1>2, <1>6, <2>1 DEF Holds, RegsOf, Filling, MutexOf, Ending
  <2> QED
    BY <1>1, <1>6, <2>2, <2>3, <2>4, <2>5, SameKeeps
<1> QED
  BY <1>4, <1>5, <1>6

LEMMA Trunc_fsync_end ==
    ASSUME WriteInv, TruncInv, WriteInv', NEW t \in Threads, fsync_end(t)
    PROVE  TruncInv'
<1>1. PICK r : r = th[t]
  OBVIOUS
<1>2. /\ r \in Registers /\ MutexOf(t, r, ilock) /\ RegsOf(r, req, isize)
      /\ Holds(r) => plock[r.page] = t
      /\ Holds(r) /\ r.op # "write" => InFile(r.page)
      /\ \A p \in r.pages : InFile(p)
      /\ \A p \in dirty \cup pinned : InFile(p)
      /\ dirty \subseteq Pages /\ pinned \subseteq Pages
  BY <1>1, Facts
<1>3. UNCHANGED <<connected, isize, fclock, req, queued, ssize>>
  BY DEF fsync_end, inodeVars, pageVars, dataVars, reqVars, listVars, srvVars, Goto,
     At, FcLock
<1>4. /\ r.pc = "durable"
      /\ r.op = "fsync"
      /\ UNCHANGED <<dirty, plock, pinned>>
      /\ th' = [th EXCEPT ![t] = Idle]
  BY <1>1, <1>2 DEF fsync_end, inodeVars, pageVars, dataVars, reqVars, listVars,
                    srvVars, Goto, At, FcLock, fsync_return, WriteInv, TypeOK
<1>5. ASSUME r.pc = "durable", r.op = "fsync", UNCHANGED <<dirty, plock, pinned>>,
             th' = [th EXCEPT ![t] = Idle]
      PROVE  TruncInv'
  <2> DEFINE x == Idle
  <2>1. /\ x = Idle /\ x.op = "none" /\ x.pc = "idle" /\ x.pages = {}
        /\ RegsOf(x, req, isize)
    BY IdleRegs DEF Idle
  <2>1a. th' = [th EXCEPT ![t] = x]
    BY <1>5
  <2> HIDE DEF x
  <2>2. Resting(t, x)
    BY <1>1, <1>2, <1>3, <1>5, <2>1, <2>1a DEF Resting
  <2>3. Awaits(t, x)
    BY <1>1, <1>2, <1>5, <2>1 DEF Awaits, Expected, Releasing, Laundering, RegsOf,
                                  Filling, MutexOf, Ending, Idle, Registers
  <2>4. /\ Holds(x) => Holds(r) /\ x.page = r.page /\ (x.op # "write" => r.op # "write")
        /\ x.pages \subseteq r.pages /\ r.pc # "truncate"
    BY <1>2, <1>5, <2>1 DEF Holds, RegsOf, Filling, MutexOf, Ending
  <2> QED
    BY <1>1, <1>5, <2>2, <2>1, <2>3, <2>4, SameKeeps
<1> QED
  BY <1>4, <1>5

LEMMA Trunc_write_begin ==
    ASSUME WriteInv, TruncInv, WriteInv', NEW t \in Threads, NEW p \in Pages,
           write_begin(t, p)
    PROVE  TruncInv'
<1>1. PICK r : r = th[t]
  OBVIOUS
<1>2. /\ r \in Registers /\ MutexOf(t, r, ilock) /\ RegsOf(r, req, isize)
      /\ Holds(r) => plock[r.page] = t
      /\ Holds(r) /\ r.op # "write" => InFile(r.page)
      /\ \A n \in r.pages : InFile(n)
      /\ \A n \in dirty \cup pinned : InFile(n)
      /\ dirty \subseteq Pages /\ pinned \subseteq Pages
  BY <1>1, Facts
<1>3. UNCHANGED <<connected, isize, fclock, req, queued, ssize>>
  BY DEF write_begin, inodeVars, pageVars, dataVars, reqVars, listVars, srvVars, Goto,
     At, FcLock
<1>4. \/ /\ r.pc = "idle"
         /\ UNCHANGED <<dirty, plock, pinned>>
         /\ th' = [th EXCEPT ![t] = [r EXCEPT !.op = "write", !.pc = "lock", !.page = p]]
      \/ /\ r.pc = "idle"
         /\ UNCHANGED <<dirty, plock, pinned>>
         /\ th' = [th EXCEPT ![t] = [r EXCEPT !.op = "mkwrite", !.pc = "lock", !.page = p]]
  BY <1>1, <1>2 DEF write_begin, inodeVars, pageVars, dataVars, reqVars, listVars,
                    srvVars, Goto, At, FcLock, WriteInv, TypeOK
<1>5. ASSUME r.pc = "idle", UNCHANGED <<dirty, plock, pinned>>,
             th' = [th EXCEPT ![t] = [r EXCEPT !.op = "write", !.pc = "lock", !.page = p]]
      PROVE  TruncInv'
  <2> DEFINE x == [r EXCEPT !.op = "write", !.pc = "lock", !.page = p]
  <2>1. /\ x.op = "write" /\ x.pc = "lock" /\ x.page = p /\ x.pages = r.pages
        /\ x.req = r.req /\ x.isw = r.isw /\ x.cur = r.cur /\ x.after = r.after
        /\ x.crop = r.crop /\ x.old = r.old /\ x.err = r.err /\ x.size = r.size
    BY <1>2 DEF Registers
  <2>1a. th' = [th EXCEPT ![t] = x]
    BY <1>5
  <2> HIDE DEF x
  <2>2. Resting(t, x)
    BY <1>1, <1>2, <1>3, <1>5, <2>1, <2>1a DEF Resting
  <2>3. RegsOf(x, req, isize)
    BY <1>2, <1>5, <2>1 DEF RegsOf, Filling, Releasing, Laundering, MutexOf, Ending, Idle
  <2>4. Awaits(t, x)
    BY <1>1, <1>2, <1>5, <2>1 DEF Awaits, Expected, Releasing, Laundering, RegsOf,
                                  Filling, MutexOf, Ending, Idle, Registers
  <2>5. /\ Holds(x) => Holds(r) /\ x.page = r.page /\ (x.op # "write" => r.op # "write")
        /\ x.pages \subseteq r.pages /\ r.pc # "truncate"
    BY <1>2, <1>5, <2>1 DEF Holds, RegsOf, Filling, MutexOf, Ending
  <2> QED
    BY <1>1, <1>5, <2>2, <2>3, <2>4, <2>5, SameKeeps
<1>6. ASSUME r.pc = "idle", UNCHANGED <<dirty, plock, pinned>>,
             th' = [th EXCEPT ![t] = [r EXCEPT !.op = "mkwrite", !.pc = "lock", !.page = p]]
      PROVE  TruncInv'
  <2> DEFINE x == [r EXCEPT !.op = "mkwrite", !.pc = "lock", !.page = p]
  <2>1. /\ x.op = "mkwrite" /\ x.pc = "lock" /\ x.page = p /\ x.pages = r.pages
        /\ x.req = r.req /\ x.isw = r.isw /\ x.cur = r.cur /\ x.after = r.after
        /\ x.crop = r.crop /\ x.old = r.old /\ x.err = r.err /\ x.size = r.size
    BY <1>2 DEF Registers
  <2>1a. th' = [th EXCEPT ![t] = x]
    BY <1>6
  <2> HIDE DEF x
  <2>2. Resting(t, x)
    BY <1>1, <1>2, <1>3, <1>6, <2>1, <2>1a DEF Resting
  <2>3. RegsOf(x, req, isize)
    BY <1>2, <1>6, <2>1 DEF RegsOf, Filling, Releasing, Laundering, MutexOf, Ending, Idle
  <2>4. Awaits(t, x)
    BY <1>1, <1>2, <1>6, <2>1 DEF Awaits, Expected, Releasing, Laundering, RegsOf,
                                  Filling, MutexOf, Ending, Idle, Registers
  <2>5. /\ Holds(x) => Holds(r) /\ x.page = r.page /\ (x.op # "write" => r.op # "write")
        /\ x.pages \subseteq r.pages /\ r.pc # "truncate"
    BY <1>2, <1>6, <2>1 DEF Holds, RegsOf, Filling, MutexOf, Ending
  <2> QED
    BY <1>1, <1>6, <2>2, <2>3, <2>4, <2>5, SameKeeps
<1> QED
  BY <1>4, <1>5, <1>6

LEMMA Trunc_write_lock ==
    ASSUME WriteInv, TruncInv, WriteInv', NEW t \in Threads, write_lock(t)
    PROVE  TruncInv'
<1>1. PICK r : r = th[t]
  OBVIOUS
<1>2. /\ r \in Registers /\ MutexOf(t, r, ilock) /\ RegsOf(r, req, isize)
      /\ Holds(r) => plock[r.page] = t
      /\ Holds(r) /\ r.op # "write" => InFile(r.page)
      /\ \A p \in r.pages : InFile(p)
      /\ \A p \in dirty \cup pinned : InFile(p)
      /\ dirty \subseteq Pages /\ pinned \subseteq Pages
  BY <1>1, Facts
<1>3. UNCHANGED <<connected, isize, fclock, req, queued, ssize>>
  BY DEF write_lock, inodeVars, pageVars, dataVars, reqVars, listVars, srvVars, Goto,
     At, FcLock
<1>4. \/ /\ r.pc = "lock"
         /\ r.op = "mkwrite"
         /\ UNCHANGED <<dirty, plock, pinned>>
         /\ th' = [th EXCEPT ![t] = Idle]
      \/ /\ r.pc = "lock"
         /\ (r.op = "mkwrite" => r.page < isize)
         /\ plock[r.page] = None
         /\ plock' = [plock EXCEPT ![r.page] = t]
         /\ UNCHANGED <<dirty, pinned>>
         /\ th' = [th EXCEPT ![t] = [r EXCEPT !.pc = "waitpage", !.after = "store"]]
  <2>1. r.pc = "lock" /\ plock[r.page] = None /\ UNCHANGED <<dirty, pinned>>
    BY <1>1 DEF write_lock, dataVars
  <2>2. CASE r.op = "mkwrite" /\ r.page >= isize
    <3>1. th' = [th EXCEPT ![t] = Idle] /\ UNCHANGED plock
      BY <1>1, <2>2 DEF write_lock
    <3> QED
      BY <2>1, <2>2, <3>1
  <2>3. CASE ~(r.op = "mkwrite" /\ r.page >= isize)
    <3>1. /\ plock' = [plock EXCEPT ![r.page] = t]
          /\ th' = [th EXCEPT ![t] = [r EXCEPT !.pc = "waitpage", !.after = "store"]]
      BY <1>1, <2>3 DEF write_lock, WriteInv, TypeOK
    <3>2. r.op = "mkwrite" => r.page < isize
      BY <1>2, <2>3 DEF Registers, Pages, WriteInv, TypeOK
    <3> QED
      BY <2>1, <3>1, <3>2
  <2> QED
    BY <2>2, <2>3
<1>5. ASSUME r.pc = "lock", r.op = "mkwrite", UNCHANGED <<dirty, plock, pinned>>,
             th' = [th EXCEPT ![t] = Idle]
      PROVE  TruncInv'
  <2> DEFINE x == Idle
  <2>1. /\ x = Idle /\ x.op = "none" /\ x.pc = "idle" /\ x.pages = {}
        /\ RegsOf(x, req, isize)
    BY IdleRegs DEF Idle
  <2>1a. th' = [th EXCEPT ![t] = x]
    BY <1>5
  <2> HIDE DEF x
  <2>2. Resting(t, x)
    BY <1>1, <1>2, <1>3, <1>5, <2>1, <2>1a DEF Resting
  <2>3. Awaits(t, x)
    BY <1>1, <1>2, <1>5, <2>1 DEF Awaits, Expected, Releasing, Laundering, RegsOf,
                                  Filling, MutexOf, Ending, Idle, Registers
  <2>4. /\ Holds(x) => Holds(r) /\ x.page = r.page /\ (x.op # "write" => r.op # "write")
        /\ x.pages \subseteq r.pages /\ r.pc # "truncate"
    BY <1>2, <1>5, <2>1 DEF Holds, RegsOf, Filling, MutexOf, Ending
  <2> QED
    BY <1>1, <1>5, <2>2, <2>1, <2>3, <2>4, SameKeeps
<1>6. ASSUME r.pc = "lock", r.op = "mkwrite" => r.page < isize, plock[r.page] = None,
             plock' = [plock EXCEPT ![r.page] = t], UNCHANGED <<dirty, pinned>>,
             th' = [th EXCEPT ![t] = [r EXCEPT !.pc = "waitpage", !.after = "store"]]
      PROVE  TruncInv'
  <2> DEFINE x == [r EXCEPT !.pc = "waitpage", !.after = "store"]
  <2>1. /\ x.op = r.op /\ x.pc = "waitpage" /\ x.page = r.page /\ x.pages = r.pages
        /\ x.req = r.req /\ x.isw = r.isw /\ x.cur = r.cur /\ x.after = "store"
        /\ x.crop = r.crop /\ x.old = r.old /\ x.err = r.err /\ x.size = r.size
    BY <1>2 DEF Registers
  <2>1a. th' = [th EXCEPT ![t] = x]
    BY <1>6
  <2> HIDE DEF x
  <2>2. Resting(t, x)
    BY <1>1, <1>2, <1>3, <1>6, <2>1, <2>1a DEF Resting
  <2>3. RegsOf(x, req, isize)
    BY <1>2, <1>6, <2>1 DEF RegsOf, Filling, Releasing, Laundering, MutexOf, Ending, Idle
  <2>4. Awaits(t, x)
    BY <1>1, <1>2, <1>6, <2>1 DEF Awaits, Expected, Releasing, Laundering, RegsOf,
                                  Filling, MutexOf, Ending, Idle, Registers
  <2>5. Locks(t, x)
    BY <1>1, <1>2, <1>6, <2>1 DEF Locks, Holds, RegsOf, Filling, Registers
  <2>6. Stays(t, x)
    BY <1>1, <1>2, <1>6, <2>1 DEF Stays, Holds, RegsOf, Filling, MutexOf, Ending,
                                  InFile, Registers
  <2> QED
    BY <2>2, <2>3, <2>4, <2>5, <2>6, RestKeeps
<1> QED
  BY <1>4, <1>5, <1>6

LEMMA Trunc_mkwrite_end ==
    ASSUME WriteInv, TruncInv, WriteInv', NEW t \in Threads, mkwrite_end(t)
    PROVE  TruncInv'
<1>1. PICK r : r = th[t]
  OBVIOUS
<1>2. /\ r \in Registers /\ MutexOf(t, r, ilock) /\ RegsOf(r, req, isize)
      /\ Holds(r) => plock[r.page] = t
      /\ Holds(r) /\ r.op # "write" => InFile(r.page)
      /\ \A p \in r.pages : InFile(p)
      /\ \A p \in dirty \cup pinned : InFile(p)
      /\ dirty \subseteq Pages /\ pinned \subseteq Pages
  BY <1>1, Facts
<1>3. UNCHANGED <<connected, isize, fclock, req, queued, ssize>>
  BY DEF mkwrite_end, inodeVars, pageVars, dataVars, reqVars, listVars, srvVars, Goto,
     At, FcLock, Store
<1>4. /\ r.pc = "store"
      /\ r.op = "mkwrite"
      /\ dirty' = dirty \cup {r.page}
      /\ pinned' \in {pinned, pinned \cup {r.page}}
      /\ plock' = [plock EXCEPT ![r.page] = None]
      /\ th' = [th EXCEPT ![t] = Idle]
  BY <1>1, <1>2 DEF mkwrite_end, inodeVars, pageVars, dataVars, reqVars, listVars,
                    srvVars, Goto, At, FcLock, Store, Store, WriteInv, TypeOK
<1>5. ASSUME r.pc = "store", r.op = "mkwrite", dirty' = dirty \cup {r.page},
             pinned' \in {pinned, pinned \cup {r.page}},
             plock' = [plock EXCEPT ![r.page] = None], th' = [th EXCEPT ![t] = Idle]
      PROVE  TruncInv'
  <2> DEFINE x == Idle
  <2>1. /\ x = Idle /\ x.op = "none" /\ x.pc = "idle" /\ x.pages = {}
        /\ RegsOf(x, req, isize)
    BY IdleRegs DEF Idle
  <2>1a. th' = [th EXCEPT ![t] = x]
    BY <1>5
  <2> HIDE DEF x
  <2>2. Resting(t, x)
    BY <1>1, <1>2, <1>3, <1>5, <2>1, <2>1a DEF Resting
  <2>3. Awaits(t, x)
    BY <1>1, <1>2, <1>5, <2>1 DEF Awaits, Expected, Releasing, Laundering, RegsOf,
                                  Filling, MutexOf, Ending, Idle, Registers
  <2>4. Locks(t, x)
    BY <1>1, <1>2, <1>5, <2>1 DEF Locks, Holds, RegsOf, Filling, Registers
  <2>5. Stays(t, x)
    BY <1>1, <1>2, <1>5, <2>1 DEF Stays, Holds, RegsOf, Filling, MutexOf, Ending
  <2> QED
    BY <2>2, <2>1, <2>3, <2>4, <2>5, RestKeeps
<1> QED
  BY <1>4, <1>5

LEMMA Trunc_setattr_begin ==
    ASSUME WriteInv, TruncInv, WriteInv', NEW t \in Threads, NEW s \in Sizes,
           setattr_begin(t, s)
    PROVE  TruncInv'
<1>1. PICK r : r = th[t]
  OBVIOUS
<1>2. /\ r \in Registers /\ MutexOf(t, r, ilock) /\ RegsOf(r, req, isize)
      /\ Holds(r) => plock[r.page] = t
      /\ Holds(r) /\ r.op # "write" => InFile(r.page)
      /\ \A p \in r.pages : InFile(p)
      /\ \A p \in dirty \cup pinned : InFile(p)
      /\ dirty \subseteq Pages /\ pinned \subseteq Pages
  BY <1>1, Facts
<1>3. UNCHANGED <<connected, isize, fclock, req, queued, ssize>>
  BY DEF setattr_begin, inodeVars, pageVars, dataVars, reqVars, listVars, srvVars,
     Goto, At, FcLock
<1>4. /\ r.pc = "idle"
      /\ UNCHANGED <<dirty, plock, pinned>>
      /\ th' = [th EXCEPT ![t] = [r EXCEPT !.op = "truncate", !.pc = "nowrite", !.size = s]]
  BY <1>1, <1>2 DEF setattr_begin, inodeVars, pageVars, dataVars, reqVars, listVars,
                    srvVars, Goto, At, FcLock, WriteInv, TypeOK
<1>5. ASSUME r.pc = "idle", UNCHANGED <<dirty, plock, pinned>>,
             th' = [th EXCEPT ![t] = [r EXCEPT !.op = "truncate", !.pc = "nowrite", !.size = s]]
      PROVE  TruncInv'
  <2> DEFINE x == [r EXCEPT !.op = "truncate", !.pc = "nowrite", !.size = s]
  <2>1. /\ x.op = "truncate" /\ x.pc = "nowrite" /\ x.page = r.page /\ x.pages = r.pages
        /\ x.req = r.req /\ x.isw = r.isw /\ x.cur = r.cur /\ x.after = r.after
        /\ x.crop = r.crop /\ x.old = r.old /\ x.err = r.err /\ x.size = s
    BY <1>2 DEF Registers
  <2>1a. th' = [th EXCEPT ![t] = x]
    BY <1>5
  <2> HIDE DEF x
  <2>2. Resting(t, x)
    BY <1>1, <1>2, <1>3, <1>5, <2>1, <2>1a DEF Resting
  <2>3. RegsOf(x, req, isize)
    BY <1>2, <1>5, <2>1 DEF RegsOf, Filling, Releasing, Laundering, MutexOf, Ending, Idle
  <2>4. Awaits(t, x)
    BY <1>1, <1>2, <1>5, <2>1 DEF Awaits, Expected, Releasing, Laundering, RegsOf,
                                  Filling, MutexOf, Ending, Idle, Registers
  <2>5. /\ Holds(x) => Holds(r) /\ x.page = r.page /\ (x.op # "write" => r.op # "write")
        /\ x.pages \subseteq r.pages /\ r.pc # "truncate"
    BY <1>2, <1>5, <2>1 DEF Holds, RegsOf, Filling, MutexOf, Ending
  <2> QED
    BY <1>1, <1>5, <2>2, <2>3, <2>4, <2>5, SameKeeps
<1> QED
  BY <1>4, <1>5

LEMMA Trunc_fuse_launder_page ==
    ASSUME WriteInv, TruncInv, WriteInv', NEW t \in Threads, fuse_launder_page(t)
    PROVE  TruncInv'
<1>1. PICK r : r = th[t]
  OBVIOUS
<1>2. /\ r \in Registers /\ MutexOf(t, r, ilock) /\ RegsOf(r, req, isize)
      /\ Holds(r) => plock[r.page] = t
      /\ Holds(r) /\ r.op # "write" => InFile(r.page)
      /\ \A p \in r.pages : InFile(p)
      /\ \A p \in dirty \cup pinned : InFile(p)
      /\ dirty \subseteq Pages /\ pinned \subseteq Pages
  BY <1>1, Facts
<1>3. UNCHANGED <<connected, isize, fclock, req, queued, ssize>>
  BY DEF fuse_launder_page, inodeVars, pageVars, dataVars, reqVars, listVars, srvVars,
     Goto, At, FcLock
<1>4. \/ /\ r.pc = "launder"
         /\ plock' = [plock EXCEPT ![r.page] = None]
         /\ UNCHANGED <<dirty, pinned>>
         /\ th' = [th EXCEPT ![t] = [r EXCEPT !.pc = "invalidate", !.cur = r.page + 1, !.page = 0, !.err = FALSE]]
      \/ /\ r.pc = "launder"
         /\ UNCHANGED <<dirty, plock, pinned>>
         /\ th' = [th EXCEPT ![t] = [r EXCEPT !.pc = "waitpage", !.after = "laundered"]]
  BY <1>1, <1>2 DEF fuse_launder_page, inodeVars, pageVars, dataVars, reqVars,
                    listVars, srvVars, Goto, At, FcLock, WriteInv, TypeOK
<1>5. ASSUME r.pc = "launder", plock' = [plock EXCEPT ![r.page] = None],
             UNCHANGED <<dirty, pinned>>,
             th' = [th EXCEPT ![t] = [r EXCEPT !.pc = "invalidate", !.cur = r.page + 1, !.page = 0, !.err = FALSE]]
      PROVE  TruncInv'
  <2> DEFINE x == [r EXCEPT !.pc = "invalidate", !.cur = r.page + 1, !.page = 0, !.err = FALSE]
  <2>1. /\ x.op = r.op /\ x.pc = "invalidate" /\ x.page = 0 /\ x.pages = r.pages
        /\ x.req = r.req /\ x.isw = r.isw /\ x.cur = r.page + 1 /\ x.after = r.after
        /\ x.crop = r.crop /\ x.old = r.old /\ x.err = FALSE /\ x.size = r.size
    BY <1>2 DEF Registers
  <2>1a. th' = [th EXCEPT ![t] = x]
    BY <1>5
  <2> HIDE DEF x
  <2>2. Resting(t, x)
    BY <1>1, <1>2, <1>3, <1>5, <2>1, <2>1a DEF Resting
  <2>3. RegsOf(x, req, isize)
    BY <1>2, <1>5, <2>1 DEF RegsOf, Filling, Releasing, Laundering, MutexOf, Ending, Idle
  <2>4. Awaits(t, x)
    <3>1. r.cur \in Nat /\ r.page = r.cur /\ r.op = "truncate" /\ x.op = "truncate"
          /\ \A p \in Pages : p \in Nat
      BY <1>2, <1>5, <2>1 DEF RegsOf, MutexOf, Ending, Laundering, Registers, Pages
    <3>2. ASSUME NEW u \in Threads, Expected(th[u].pages, r) PROVE Expected(th[u].pages, x)
      <4>1. PICK p \in th[u].pages : p > r.cur
        BY <1>5, <3>2 DEF Expected, Releasing
      <4>2. p \in Pages
        BY <4>1 DEF WriteInv, TypeOK, Registers
      <4>3. p >= r.cur + 1
        BY <3>1, <4>1, <4>2
      <4> QED
        BY <1>5, <2>1, <3>1, <4>1, <4>3 DEF Expected, Laundering
    <3> QED
      BY <1>1, <3>1, <3>2 DEF Awaits
  <2>5. Locks(t, x)
    BY <1>1, <1>2, <1>5, <2>1 DEF Locks, Holds, RegsOf, Filling, Registers
  <2>6. Stays(t, x)
    BY <1>1, <1>2, <1>5, <2>1 DEF Stays, Holds, RegsOf, Filling, MutexOf, Ending
  <2> QED
    BY <2>2, <2>3, <2>4, <2>5, <2>6, RestKeeps
<1>6. ASSUME r.pc = "launder", UNCHANGED <<dirty, plock, pinned>>,
             th' = [th EXCEPT ![t] = [r EXCEPT !.pc = "waitpage", !.after = "laundered"]]
      PROVE  TruncInv'
  <2> DEFINE x == [r EXCEPT !.pc = "waitpage", !.after = "laundered"]
  <2>1. /\ x.op = r.op /\ x.pc = "waitpage" /\ x.page = r.page /\ x.pages = r.pages
        /\ x.req = r.req /\ x.isw = r.isw /\ x.cur = r.cur /\ x.after = "laundered"
        /\ x.crop = r.crop /\ x.old = r.old /\ x.err = r.err /\ x.size = r.size
    BY <1>2 DEF Registers
  <2>1a. th' = [th EXCEPT ![t] = x]
    BY <1>6
  <2> HIDE DEF x
  <2>2. Resting(t, x)
    BY <1>1, <1>2, <1>3, <1>6, <2>1, <2>1a DEF Resting
  <2>3. RegsOf(x, req, isize)
    BY <1>2, <1>6, <2>1 DEF RegsOf, Filling, Releasing, Laundering, MutexOf, Ending, Idle
  <2>4. Awaits(t, x)
    BY <1>1, <1>2, <1>6, <2>1 DEF Awaits, Expected, Releasing, Laundering, RegsOf,
                                  Filling, MutexOf, Ending, Idle, Registers
  <2>5. /\ Holds(x) => Holds(r) /\ x.page = r.page /\ (x.op # "write" => r.op # "write")
        /\ x.pages \subseteq r.pages /\ r.pc # "truncate"
    BY <1>2, <1>6, <2>1 DEF Holds, RegsOf, Filling, MutexOf, Ending
  <2> QED
    BY <1>1, <1>6, <2>2, <2>3, <2>4, <2>5, SameKeeps
<1> QED
  BY <1>4, <1>5, <1>6

LEMMA Trunc_laundered ==
    ASSUME WriteInv, TruncInv, WriteInv', NEW t \in Threads, laundered(t)
    PROVE  TruncInv'
<1>1. PICK r : r = th[t]
  OBVIOUS
<1>2. /\ r \in Registers /\ MutexOf(t, r, ilock) /\ RegsOf(r, req, isize)
      /\ Holds(r) => plock[r.page] = t
      /\ Holds(r) /\ r.op # "write" => InFile(r.page)
      /\ \A p \in r.pages : InFile(p)
      /\ \A p \in dirty \cup pinned : InFile(p)
      /\ dirty \subseteq Pages /\ pinned \subseteq Pages
  BY <1>1, Facts
<1>3. UNCHANGED <<connected, isize, fclock, req, queued, ssize>>
  BY DEF laundered, inodeVars, pageVars, dataVars, reqVars, listVars, srvVars, Goto,
     At, FcLock
<1>4. /\ r.pc = "laundered"
      /\ plock' = [plock EXCEPT ![r.page] = None]
      /\ UNCHANGED dirty
      /\ pinned' = pinned \ {r.page}
      /\ th' = [th EXCEPT ![t] = [r EXCEPT !.pc = "invalidate", !.cur = r.page + 1, !.page = 0]]
  BY <1>1, <1>2 DEF laundered, inodeVars, pageVars, dataVars, reqVars, listVars,
                    srvVars, Goto, At, FcLock, WriteInv, TypeOK
<1>5. ASSUME r.pc = "laundered", plock' = [plock EXCEPT ![r.page] = None],
             UNCHANGED dirty, pinned' = pinned \ {r.page},
             th' = [th EXCEPT ![t] = [r EXCEPT !.pc = "invalidate", !.cur = r.page + 1, !.page = 0]]
      PROVE  TruncInv'
  <2> DEFINE x == [r EXCEPT !.pc = "invalidate", !.cur = r.page + 1, !.page = 0]
  <2>1. /\ x.op = r.op /\ x.pc = "invalidate" /\ x.page = 0 /\ x.pages = r.pages
        /\ x.req = r.req /\ x.isw = r.isw /\ x.cur = r.page + 1 /\ x.after = r.after
        /\ x.crop = r.crop /\ x.old = r.old /\ x.err = r.err /\ x.size = r.size
    BY <1>2 DEF Registers
  <2>1a. th' = [th EXCEPT ![t] = x]
    BY <1>5
  <2> HIDE DEF x
  <2>2. Resting(t, x)
    BY <1>1, <1>2, <1>3, <1>5, <2>1, <2>1a DEF Resting
  <2>3. RegsOf(x, req, isize)
    BY <1>2, <1>5, <2>1 DEF RegsOf, Filling, Releasing, Laundering, MutexOf, Ending, Idle
  <2>4. Awaits(t, x)
    <3>1. r.cur \in Nat /\ r.page = r.cur /\ r.op = "truncate" /\ x.op = "truncate"
          /\ \A p \in Pages : p \in Nat
      BY <1>2, <1>5, <2>1 DEF RegsOf, MutexOf, Ending, Laundering, Registers, Pages
    <3>2. ASSUME NEW u \in Threads, Expected(th[u].pages, r) PROVE Expected(th[u].pages, x)
      <4>1. PICK p \in th[u].pages : p > r.cur
        BY <1>5, <3>2 DEF Expected, Releasing
      <4>2. p \in Pages
        BY <4>1 DEF WriteInv, TypeOK, Registers
      <4>3. p >= r.cur + 1
        BY <3>1, <4>1, <4>2
      <4> QED
        BY <1>5, <2>1, <3>1, <4>1, <4>3 DEF Expected, Laundering
    <3> QED
      BY <1>1, <3>1, <3>2 DEF Awaits
  <2>5. Locks(t, x)
    BY <1>1, <1>2, <1>5, <2>1 DEF Locks, Holds, RegsOf, Filling, Registers
  <2>6. Stays(t, x)
    BY <1>1, <1>2, <1>5, <2>1 DEF Stays, Holds, RegsOf, Filling, MutexOf, Ending
  <2> QED
    BY <2>2, <2>3, <2>4, <2>5, <2>6, RestKeeps
<1> QED
  BY <1>4, <1>5

LEMMA Trunc_setattr_end ==
    ASSUME WriteInv, TruncInv, WriteInv', NEW t \in Threads, setattr_end(t)
    PROVE  TruncInv'
<1>1. PICK r : r = th[t]
  OBVIOUS
<1>2. /\ r \in Registers /\ MutexOf(t, r, ilock) /\ RegsOf(r, req, isize)
      /\ Holds(r) => plock[r.page] = t
      /\ Holds(r) /\ r.op # "write" => InFile(r.page)
      /\ \A p \in r.pages : InFile(p)
      /\ \A p \in dirty \cup pinned : InFile(p)
      /\ dirty \subseteq Pages /\ pinned \subseteq Pages
  BY <1>1, Facts
<1>3. UNCHANGED <<connected, isize, fclock, req, queued, ssize>>
  BY DEF setattr_end, inodeVars, pageVars, dataVars, reqVars, listVars, srvVars, Goto,
     At, FcLock
<1>4. /\ r.pc = "unlock"
      /\ UNCHANGED <<dirty, plock, pinned>>
      /\ th' = [th EXCEPT ![t] = Idle]
  BY <1>1, <1>2 DEF setattr_end, inodeVars, pageVars, dataVars, reqVars, listVars,
                    srvVars, Goto, At, FcLock, WriteInv, TypeOK
<1>5. ASSUME r.pc = "unlock", UNCHANGED <<dirty, plock, pinned>>,
             th' = [th EXCEPT ![t] = Idle]
      PROVE  TruncInv'
  <2> DEFINE x == Idle
  <2>1. /\ x = Idle /\ x.op = "none" /\ x.pc = "idle" /\ x.pages = {}
        /\ RegsOf(x, req, isize)
    BY IdleRegs DEF Idle
  <2>1a. th' = [th EXCEPT ![t] = x]
    BY <1>5
  <2> HIDE DEF x
  <2>2. Resting(t, x)
    BY <1>1, <1>2, <1>3, <1>5, <2>1, <2>1a DEF Resting
  <2>3. Awaits(t, x)
    BY <1>1, <1>2, <1>5, <2>1 DEF Awaits, Expected, Releasing, Laundering, RegsOf,
                                  Filling, MutexOf, Ending, Idle, Registers
  <2>4. /\ Holds(x) => Holds(r) /\ x.page = r.page /\ (x.op # "write" => r.op # "write")
        /\ x.pages \subseteq r.pages /\ r.pc # "truncate"
    BY <1>2, <1>5, <2>1 DEF Holds, RegsOf, Filling, MutexOf, Ending
  <2> QED
    BY <1>1, <1>5, <2>2, <2>1, <2>3, <2>4, SameKeeps
<1> QED
  BY <1>4, <1>5

-----------------------------------------------------------------------------
(* The steps of a thread that fills, queues or releases requests.          *)
LEMMA Trunc_fill_alloc ==
    ASSUME WriteInv, TruncInv, WriteInv', NEW t \in Threads, fill_alloc(t)
    PROVE  TruncInv'
<1>1. PICK r : r = th[t]
  OBVIOUS
<1>2. /\ r \in Registers /\ RegsOf(r, req, isize)
      /\ Holds(r) /\ r.op # "write" => InFile(r.page)
      /\ dirty \subseteq Pages /\ pinned \subseteq Pages
  BY <1>1, Facts
<1>3. /\ r.pc = "alloc" /\ r.op \in {"flush", "fsync"}
      /\ UNCHANGED <<connected, isize, fclock, queued, ssize, dirty, plock, pinned>>
  BY <1>1, <1>2 DEF fill_alloc, RegsOf, Filling, inodeVars, pageVars, dataVars, srvVars
<1>4. PICK x \in Registers, q \in Reqs :
        /\ th' = [th EXCEPT ![t] = x]
        /\ x.pc \in {"inflight", "count"} /\ x.pages = r.pages \cup {r.page} /\ x.req = q
        /\ x.page = r.page /\ x.op = r.op
        /\ req'[q].idx \in r.pages \cup {r.page}
        /\ \A y \in Reqs : req[y].st \in {"new", "queued"} => req'[y].idx = req[y].idx
        /\ \A y \in Reqs : req'[y].st # "new" => req'[y] = req[y]
  <2>1. PICK pc \in {"inflight", "count"} : pc = IF r.isw THEN "inflight" ELSE "count"
    OBVIOUS
  <2>2. CASE r.req # None
    <3> DEFINE x == [r EXCEPT !.pc = pc, !.pages = @ \cup {r.page}]
    <3>1. UNCHANGED req /\ r.req \in Reqs /\ th' = [th EXCEPT ![t] = x]
      BY <1>1, <2>1, <2>2, OwnRequest DEF fill_alloc, WriteInv, TypeOK
    <3>2. /\ x.pc = pc /\ x.pages = r.pages \cup {r.page} /\ x.req = r.req
          /\ x.page = r.page /\ x.op = r.op
      BY <1>2 DEF Registers
    <3>3. req[r.req].idx \in r.pages
      BY <1>2, <2>2 DEF RegsOf
    <3>4. x \in Registers
      BY <3>1 DEF WriteInv, TypeOK
    <3> HIDE DEF x
    <3> QED
      BY <3>1, <3>2, <3>3, <3>4
  <2>3. CASE r.req = None
    <3>1. PICK q \in Reqs :
            /\ req[q].st = "free"
            /\ req' = [req EXCEPT ![q].st = "new", ![q].idx = r.page]
            /\ th' = [[th EXCEPT ![t].pc = pc, ![t].pages = @ \cup {r.page}] EXCEPT ![t].req = q]
      BY <1>1, <2>1, <2>3 DEF fill_alloc
    <3> DEFINE x == [r EXCEPT !.pc = pc, !.pages = @ \cup {r.page}, !.req = q]
    <3>2. /\ x.pc = pc /\ x.pages = r.pages \cup {r.page} /\ x.req = q
          /\ x.page = r.page /\ x.op = r.op
      BY <1>2 DEF Registers
    <3>3. th' = [th EXCEPT ![t] = x]
      BY <1>1, <1>2, <3>1 DEF WriteInv, TypeOK
    <3>4. /\ req'[q].idx = r.page /\ req'[q].st = "new"
          /\ \A y \in Reqs \ {q} : req'[y] = req[y]
      BY <3>1 DEF WriteInv, TypeOK, Request
    <3>5. x \in Registers
      BY <3>3 DEF WriteInv, TypeOK
    <3> HIDE DEF x
    <3>6. /\ \A y \in Reqs : req[y].st \in {"new", "queued"} => req'[y].idx = req[y].idx
          /\ \A y \in Reqs : req'[y].st # "new" => req'[y] = req[y]
      BY <3>1, <3>4
    <3>7. req'[q].idx \in r.pages \cup {r.page}
      BY <3>4
    <3> QED
      BY <3>2, <3>3, <3>5, <3>6, <3>7
  <2> QED
    BY <2>2, <2>3
<1>5. x \in Registers
  BY <1>4
<1>6. Plain(t, x) /\ Awaits(t, x) /\ x.pc # "replied"
  BY <1>1, <1>3, <1>4 DEF Plain, Awaits
<1>7. Sends(t, x)
  BY <1>3, <1>4 DEF Sends, Sent
<1>8. Locks(t, x) /\ Stays(t, x)
  BY <1>1, <1>2, <1>3, <1>4 DEF Locks, Stays, Holds
<1>9. RegsOf(x, req', isize)
  BY <1>3, <1>4 DEF RegsOf, Filling, Releasing, Laundering
<1> QED
  BY <1>3, <1>4, <1>5, <1>6, <1>7, <1>8, <1>9, PlainKeeps

LEMMA Trunc_fill_count ==
    ASSUME WriteInv, TruncInv, WriteInv', NEW t \in Threads, fill_count(t)
    PROVE  TruncInv'
<1>1. PICK r : r = th[t]
  OBVIOUS
<1>2. /\ r \in Registers /\ RegsOf(r, req, isize)
      /\ \A p \in r.pages : InFile(p)
      /\ dirty \subseteq Pages /\ pinned \subseteq Pages
  BY <1>1, Facts
<1>3. /\ r.pc = "count" /\ r.op \in {"flush", "fsync"}
      /\ plock' = [plock EXCEPT ![r.page] = None]
      /\ UNCHANGED <<connected, isize, fclock, queued, ssize, dirty, pinned>>
  BY <1>1, <1>2 DEF fill_count, RegsOf, Filling, inodeVars, pageVars, dataVars,
                    srvVars, listVars
<1>4. r.req \in Reqs /\ req[r.req].idx \in r.pages
  <2>1. r.req # None
    BY <1>1, <1>3 DEF WriteInv, FillInv, FillOf
  <2> QED
    BY <1>1, <1>2, <2>1, OwnRequest DEF RegsOf
<1>5. \A y \in Reqs : /\ req'[y].idx = req[y].idx /\ req'[y].st = req[y].st
                      /\ req'[y].size = req[y].size
  <2>1. /\ req' = [req EXCEPT ![r.req].data = Append(@, cache[r.page])]
        /\ req[r.req] \in Request
    BY <1>1, <1>4 DEF fill_count, WriteInv, TypeOK
  <2>2. PICK d : req' = [req EXCEPT ![r.req].data = d]
    BY <2>1
  <2>3. /\ \A y \in Reqs \ {r.req} : req'[y] = req[y]
        /\ req'[r.req] = [req[r.req] EXCEPT !.data = d]
    BY <1>4, <2>2 DEF WriteInv, TypeOK
  <2>4. /\ req'[r.req].idx = req[r.req].idx /\ req'[r.req].size = req[r.req].size
        /\ req'[r.req].st = req[r.req].st
    BY <2>1, <2>3 DEF Request
  <2> QED
    BY <2>3, <2>4
<1> DEFINE x == [r EXCEPT !.pc = "scan", !.cur = r.page + 1, !.page = 0, !.isw = FALSE]
<1>6. /\ x.pc = "scan" /\ x.pages = r.pages /\ x.req = r.req
      /\ x.op = r.op /\ x.after = r.after /\ x.size = r.size
  BY <1>2 DEF Registers
<1>7. th' = [th EXCEPT ![t] = x]
  BY <1>1 DEF fill_count, WriteInv, TypeOK
<1> HIDE DEF x
<1>8. x \in Registers
  BY <1>7 DEF WriteInv, TypeOK
<1>9. Plain(t, x) /\ Awaits(t, x) /\ x.pc # "replied"
  BY <1>1, <1>3, <1>6, <1>7 DEF Plain, Awaits
<1>10. Sends(t, x)
  BY <1>3, <1>5 DEF Sends, Sent
<1>11. Locks(t, x) /\ Stays(t, x)
  BY <1>1, <1>2, <1>3, <1>6 DEF Locks, Stays, Holds
<1>12. RegsOf(x, req', isize)
  BY <1>2, <1>3, <1>4, <1>5, <1>6 DEF RegsOf, Filling, Releasing, Laundering
<1> QED
  BY <1>3, <1>8, <1>9, <1>10, <1>11, <1>12, PlainKeeps

(* The new request is merged into another one.                             *)
LEMMA Trunc_filled ==
    ASSUME WriteInv, TruncInv, WriteInv', NEW t \in Threads, filled(t),
           th[t].pc \in {"inflight", "inplace"},
           fclock' = fclock \/ fclock \in {None, t},
           UNCHANGED <<connected, isize, queued, ssize, dirty, pinned>>,
           \A y \in Reqs : y # th[t].req => req'[y].idx = req[y].idx,
           \A y \in Sent' : y \in Sent /\ req'[y].idx = req[y].idx /\ req'[y].size = req[y].size
    PROVE  TruncInv'
<1>1. PICK r : r = th[t]
  OBVIOUS
<1>2. /\ r \in Registers /\ RegsOf(r, req, isize)
      /\ dirty \subseteq Pages /\ pinned \subseteq Pages
  BY <1>1, Facts
<1>3. r.op \in {"flush", "fsync"}
  BY <1>1, <1>2 DEF RegsOf, Filling
<1> DEFINE x == [r EXCEPT !.pc = "scan", !.cur = r.page + 1, !.page = 0, !.pages = {},
                          !.req = None, !.isw = FALSE, !.old = None]
<1>4. /\ x.pc = "scan" /\ x.pages = {} /\ x.req = None
      /\ x.op = r.op /\ x.after = r.after /\ x.size = r.size
  BY <1>2 DEF Registers
<1>5. th' = [th EXCEPT ![t] = x]
  BY <1>1 DEF filled, WriteInv, TypeOK
<1> HIDE DEF x
<1>6. x \in Registers
  BY <1>5 DEF WriteInv, TypeOK
<1>7. Plain(t, x) /\ Awaits(t, x) /\ x.pc # "replied"
  BY <1>1, <1>3, <1>4, <1>5 DEF Plain, Awaits
<1>8. Sends(t, x)
  BY DEF Sends
<1>9. Locks(t, x) /\ Stays(t, x)
  BY <1>1, <1>2, <1>4 DEF Locks, Stays, Holds, filled
<1>10. RegsOf(x, req', isize)
  BY <1>3, <1>4 DEF RegsOf, Filling, Releasing, Laundering
<1> QED
  BY <1>6, <1>7, <1>8, <1>9, <1>10, PlainKeeps

LEMMA Trunc_fuse_writepage_in_flight ==
    ASSUME WriteInv, TruncInv, WriteInv', NEW t \in Threads, fuse_writepage_in_flight(t)
    PROVE  TruncInv'
<1>1. PICK r : r = th[t]
  OBVIOUS
<1>2. /\ r \in Registers /\ RegsOf(r, req, isize)
      /\ \A p \in r.pages : InFile(p)
      /\ Holds(r) /\ r.op # "write" => InFile(r.page)
      /\ dirty \subseteq Pages /\ pinned \subseteq Pages
  BY <1>1, Facts
<1>3. /\ r.pc = "inflight" /\ r.op \in {"flush", "fsync"} /\ fclock \in {None, t}
      /\ UNCHANGED <<connected, isize, queued, ssize, dirty, pinned>>
  BY <1>1, <1>2 DEF fuse_writepage_in_flight, RegsOf, Filling, FcLock, inodeVars,
                    pageVars,
                    dataVars, srvVars
<1>4. r.req \in Reqs /\ req[r.req].st = "new"
  <2>1. r.req # None
    BY <1>1, <1>3 DEF WriteInv, FillInv, FillOf
  <2> QED
    BY <1>1, <2>1, OwnRequest
<1>5. \/ /\ th' = [th EXCEPT ![t] = [r EXCEPT !.pc = "count"]]
         /\ UNCHANGED <<plock, req, fclock>>
      \/ /\ \E old \in Reqs \cup {None} :
               th' = [th EXCEPT ![t] = [r EXCEPT !.pc = "inplace", !.old = old]]
         /\ fclock' = t /\ UNCHANGED <<plock, req>>
      \/ \E q \in writepages \ {r.req} : \E c :
            /\ req' = [req EXCEPT ![r.req].st = "chained", ![r.req].data = <<cache[r.page]>>,
                                  ![q].chain = c]
            /\ filled(t) /\ UNCHANGED fclock
  <2>1. CASE Goto(t, "count") /\ UNCHANGED <<plock, writepages, req, fclock>>
    BY <1>1, <2>1 DEF Goto, WriteInv, TypeOK
  <2>2. ASSUME NEW q \in writepages \ {r.req}, NEW i, NEW list,
               list = <<q>> \o req[q].chain,
               th' = [th EXCEPT ![t].pc = "inplace", ![t].old = list[i]],
               fclock' = t, UNCHANGED <<plock, req>>
        PROVE  \E old \in Reqs \cup {None} :
                  th' = [th EXCEPT ![t] = [r EXCEPT !.pc = "inplace", !.old = old]]
    <3>1. PICK old : old = list[i]
      OBVIOUS
    <3>2. th' = [th EXCEPT ![t] = [r EXCEPT !.pc = "inplace", !.old = old]]
      BY <1>1, <2>2, <3>1 DEF WriteInv, TypeOK
    <3>3. th'[t] \in Registers /\ th'[t] = [r EXCEPT !.pc = "inplace", !.old = old]
      BY <3>2 DEF WriteInv, TypeOK
    <3>4. th'[t].old = old
      BY <1>2, <3>3 DEF Registers
    <3> QED
      BY <3>2, <3>3, <3>4 DEF Registers
  <2> QED
    BY <1>1, <2>1, <2>2 DEF fuse_writepage_in_flight
<1>6. ASSUME th' = [th EXCEPT ![t] = [r EXCEPT !.pc = "count"]],
             UNCHANGED <<plock, req, fclock>>
      PROVE  TruncInv'
  <2> DEFINE x == [r EXCEPT !.pc = "count"]
  <2>1. /\ x.pc = "count" /\ x.pages = r.pages /\ x.req = r.req /\ x.page = r.page
        /\ x.op = r.op /\ x.after = r.after /\ x.size = r.size
    BY <1>2 DEF Registers
  <2>2. th' = [th EXCEPT ![t] = x]
    BY <1>6
  <2> HIDE DEF x
  <2>3. Resting(t, x) /\ Awaits(t, x)
    BY <1>1, <1>3, <1>6, <2>1, <2>2 DEF Resting, Awaits
  <2>4. /\ Holds(x) => Holds(r) /\ x.page = r.page /\ (x.op # "write" => r.op # "write")
        /\ x.pages \subseteq r.pages /\ r.pc # "truncate"
    BY <1>3, <2>1 DEF Holds
  <2>5. RegsOf(x, req, isize)
    BY <1>2, <1>3, <2>1 DEF RegsOf, Filling, Releasing, Laundering
  <2> QED
    BY <1>1, <1>3, <1>6, <2>3, <2>4, <2>5, SameKeeps
<1>7. ASSUME NEW old \in Reqs \cup {None}, fclock' = t, UNCHANGED <<plock, req>>,
             th' = [th EXCEPT ![t] = [r EXCEPT !.pc = "inplace", !.old = old]]
      PROVE  TruncInv'
  <2> DEFINE x == [r EXCEPT !.pc = "inplace", !.old = old]
  <2>1. /\ x.pc = "inplace" /\ x.pages = r.pages /\ x.req = r.req /\ x.page = r.page
        /\ x.op = r.op /\ x.after = r.after /\ x.size = r.size
    BY <1>2 DEF Registers
  <2>2. th' = [th EXCEPT ![t] = x]
    BY <1>7
  <2> HIDE DEF x
  <2>3. x \in Registers
    BY <2>2 DEF WriteInv, TypeOK
  <2>4. Plain(t, x) /\ Awaits(t, x) /\ x.pc # "replied"
    BY <1>1, <1>3, <1>7, <2>1, <2>2 DEF Plain, Awaits
  <2>5. Sends(t, x)
    BY <1>3, <1>7 DEF Sends, Sent
  <2>6. Locks(t, x) /\ Stays(t, x)
    BY <1>1, <1>2, <1>3, <1>7, <2>1 DEF Locks, Stays, Holds
  <2>7. RegsOf(x, req', isize)
    BY <1>2, <1>3, <1>7, <2>1 DEF RegsOf, Filling, Releasing, Laundering
  <2> QED
    BY <1>3, <2>3, <2>4, <2>5, <2>6, <2>7, PlainKeeps
<1>8. ASSUME NEW q \in writepages \ {r.req}, NEW c, filled(t), UNCHANGED fclock,
             req' = [req EXCEPT ![r.req].st = "chained", ![r.req].data = <<cache[r.page]>>,
                                ![q].chain = c]
      PROVE  TruncInv'
  <2>1. q \in Reqs \ {r.req}
    BY DEF WriteInv, TypeOK
  <2>2. \A y \in Reqs : /\ req'[y].idx = req[y].idx /\ req'[y].size = req[y].size
                        /\ req'[y].st = req[y].st \/ req'[y].st = "chained"
    <3>1. \A y \in Reqs \ {r.req, q} : req'[y] = req[y]
      BY <1>8 DEF WriteInv, TypeOK
    <3>2. req'[r.req] = [req[r.req] EXCEPT !.st = "chained", !.data = <<cache[r.page]>>]
      BY <1>4, <1>8, <2>1 DEF WriteInv, TypeOK
    <3>3. req'[q] = [req[q] EXCEPT !.chain = c]
      BY <1>8, <2>1 DEF WriteInv, TypeOK
    <3>4. req[q] \in Request /\ req[r.req] \in Request
      BY <1>4, <2>1 DEF WriteInv, TypeOK
    <3>5. /\ req'[r.req].idx = req[r.req].idx /\ req'[r.req].size = req[r.req].size
          /\ req'[r.req].st = "chained"
      BY <3>2, <3>4 DEF Request
    <3>6. /\ req'[q].idx = req[q].idx /\ req'[q].size = req[q].size /\ req'[q].st = req[q].st
      BY <3>3, <3>4 DEF Request
    <3> QED
      BY <3>1, <3>5, <3>6
  <2>3. \A y \in Sent' : y \in Sent /\ req'[y].idx = req[y].idx /\ req'[y].size = req[y].size
    BY <2>2 DEF Sent
  <2> QED
    BY <1>1, <1>3, <1>8, <2>2, <2>3, Trunc_filled
<1> QED
  BY <1>5, <1>6, <1>7, <1>8

LEMMA Trunc_inplace_copy ==
    ASSUME WriteInv, TruncInv, WriteInv', NEW t \in Threads, inplace_copy(t)
    PROVE  TruncInv'
<1>1. PICK r : r = th[t]
  OBVIOUS
<1>2. /\ r.pc = "inplace" /\ filled(t) /\ fclock' = None
      /\ UNCHANGED <<connected, isize, queued, ssize, dirty, pinned>>
      /\ req' = [req EXCEPT ![r.old].data = <<cache[r.page]>>, ![r.req] = FreeReq]
  BY <1>1 DEF inplace_copy, inodeVars, srvVars, listVars
<1>3. fclock = t
  BY <1>1, <1>2 DEF WriteInv, LockInv
<1>4. /\ r.req \in Reqs /\ req[r.req].st = "new"
      /\ r.old \in Reqs \ {r.req}
  <2>1. r.req # None /\ r.old \in Reqs \ {r.req}
    BY <1>1, <1>2 DEF WriteInv, FillInv, FillOf
  <2> QED
    BY <1>1, <2>1, OwnRequest
<1>5. /\ req'[r.req].st = "free"
      /\ \A y \in Reqs \ {r.req} : /\ req'[y].idx = req[y].idx /\ req'[y].size = req[y].size
                                   /\ req'[y].st = req[y].st
  <2>1. req'[r.req] = FreeReq /\ \A y \in Reqs \ {r.req, r.old} : req'[y] = req[y]
    BY <1>2, <1>4 DEF WriteInv, TypeOK
  <2>2. req'[r.old] = [req[r.old] EXCEPT !.data = <<cache[r.page]>>] /\ req[r.old] \in Request
    BY <1>2, <1>4 DEF WriteInv, TypeOK
  <2>3. /\ req'[r.old].idx = req[r.old].idx /\ req'[r.old].size = req[r.old].size
        /\ req'[r.old].st = req[r.old].st
    BY <2>2 DEF Request
  <2> QED
    BY <2>1, <2>3 DEF FreeReq
<1>6. \A y \in Sent' : y \in Sent /\ req'[y].idx = req[y].idx /\ req'[y].size = req[y].size
  BY <1>4, <1>5 DEF Sent
<1> QED
  BY <1>1, <1>2, <1>3, <1>5, <1>6, Trunc_filled

(* A thread begins fuse_flush_writepages under fc->lock, with the size of  *)
(* the file.                                                               *)
LEMMA BeginsFlush ==
    ASSUME WriteInv, TruncInv, WriteInv', NEW t \in Threads, NEW x,
           th' = [th EXCEPT ![t] = x], x.pc = "flush", x.crop = isize, ~Releasing(x), fclock' = t,
           th[t].pc \in {"send", "locked", "section"}, FcLock(t),
           UNCHANGED <<connected, isize, ssize, dirty, plock, pinned>>, Sends(t, x),
           x.page = th[t].page, x.pages = th[t].pages, x.op = th[t].op,
           Holds(x) => Holds(th[t]), Awaits(t, x), RegsOf(x, req', isize)
    PROVE  TruncInv'
<1>1. PICK r : r = th[t]
  OBVIOUS
<1>2. /\ Holds(r) /\ r.op # "write" => InFile(r.page)
      /\ \A p \in r.pages : InFile(p)
      /\ dirty \subseteq Pages /\ pinned \subseteq Pages
  BY <1>1, Facts
<1>3. x \in Registers
  BY DEF WriteInv, TypeOK
<1>4. Plain(t, x) /\ x.pc # "replied"
  BY DEF Plain, FcLock
<1>5. Locks(t, x) /\ Stays(t, x)
  BY <1>1, <1>2 DEF Locks, Stays
<1> QED
  BY <1>3, <1>4, <1>5, PlainKeeps

LEMMA Trunc_fuse_writepages_send ==
    ASSUME WriteInv, TruncInv, WriteInv', NEW t \in Threads, fuse_writepages_send(t)
    PROVE  TruncInv'
<1>1. PICK r : r = th[t]
  OBVIOUS
<1>2. r \in Registers /\ RegsOf(r, req, isize)
  BY <1>1, Facts
<1>3. /\ r.pc = "send" /\ FcLock(t) /\ fclock' = t /\ r.op \in {"flush", "fsync"}
      /\ r.after \in {"alloc", "written"}
      /\ queued' = Append(queued, r.req) /\ req' = [req EXCEPT ![r.req].st = "queued"]
      /\ UNCHANGED <<connected, isize, ssize, dirty, plock, pinned>>
  BY <1>1, <1>2 DEF fuse_writepages_send, RegsOf, Filling, inodeVars, pageVars,
                    dataVars, srvVars
<1>4. /\ r.req \in Reqs /\ req[r.req].st = "new" /\ req[r.req].idx \in r.pages
  <2>1. r.req # None
    BY <1>1, <1>3 DEF WriteInv, FillInv, FillOf
  <2> QED
    BY <1>1, <1>2, <2>1, OwnRequest DEF RegsOf
<1>5. \A y \in Reqs : /\ req'[y].idx = req[y].idx /\ req'[y].size = req[y].size
                      /\ req'[y].st = req[y].st \/ req'[y].st = "queued"
  <2>1. /\ \A y \in Reqs \ {r.req} : req'[y] = req[y]
        /\ req'[r.req] = [req[r.req] EXCEPT !.st = "queued"] /\ req[r.req] \in Request
    BY <1>3, <1>4 DEF WriteInv, TypeOK
  <2>2. /\ req'[r.req].idx = req[r.req].idx /\ req'[r.req].size = req[r.req].size
        /\ req'[r.req].st = "queued"
    BY <2>1 DEF Request
  <2> QED
    BY <2>1, <2>2
<1> DEFINE x == [r EXCEPT !.pc = "flush", !.crop = isize, !.req = None]
<1>6. /\ x.pc = "flush" /\ x.pages = r.pages /\ x.req = None /\ x.page = r.page
      /\ x.op = r.op /\ x.after = r.after /\ x.size = r.size /\ x.crop = isize
  BY <1>2 DEF Registers
<1>7. th' = [th EXCEPT ![t] = x]
  BY <1>1 DEF fuse_writepages_send, WriteInv, TypeOK
<1> HIDE DEF x
<1>8. ~Releasing(x) /\ (Holds(x) => Holds(r))
  BY <1>3, <1>6 DEF Releasing, Holds
<1>9. Sends(t, x)
  <2>1. \A y \in Sent' : y \in Sent /\ req'[y].idx = req[y].idx /\ req'[y].size = req[y].size
    BY <1>5 DEF Sent
  <2> QED
    BY <1>3, <1>4, <1>5, <1>6, <2>1 DEF Sends
<1>10. Awaits(t, x)
  BY <1>1, <1>3 DEF Awaits
<1>11. RegsOf(x, req', isize)
  BY <1>3, <1>4, <1>6 DEF RegsOf, Filling, Releasing, Laundering
<1> QED
  BY <1>1, <1>3, <1>6, <1>7, <1>8, <1>9, <1>10, <1>11, BeginsFlush

LEMMA Trunc_fuse_writepage_locked ==
    ASSUME WriteInv, TruncInv, WriteInv', NEW t \in Threads, fuse_writepage_locked(t)
    PROVE  TruncInv'
<1>1. PICK r : r = th[t]
  OBVIOUS
<1>2. r \in Registers /\ RegsOf(r, req, isize) /\ MutexOf(t, r, ilock)
  BY <1>1, Facts
<1>3. /\ r.pc = "locked" /\ FcLock(t) /\ fclock' = t /\ r.page \in r.pages
      /\ r.after \in {"reclaimed", "launder"}
      /\ UNCHANGED <<connected, isize, ssize, dirty, plock, pinned>>
  BY <1>1, <1>2 DEF fuse_writepage_locked, RegsOf, MutexOf, inodeVars, pageVars,
                    dataVars, srvVars
<1>4. PICK q \in Reqs :
         /\ req[q].st = "free" /\ queued' = Append(queued, q)
         /\ req' = [req EXCEPT ![q].st = "queued", ![q].idx = r.page,
                               ![q].data = <<cache[r.page]>>]
  BY <1>1 DEF fuse_writepage_locked
<1>5. /\ req'[q].idx = r.page /\ req'[q].st = "queued"
      /\ \A y \in Reqs \ {q} : req'[y] = req[y]
  <2>1. /\ \A y \in Reqs \ {q} : req'[y] = req[y]
        /\ req'[q] = [req[q] EXCEPT !.st = "queued", !.idx = r.page, !.data = <<cache[r.page]>>]
        /\ req[q] \in Request
    BY <1>4 DEF WriteInv, TypeOK
  <2>2. req'[q].idx = r.page /\ req'[q].st = "queued"
    BY <2>1 DEF Request
  <2> QED
    BY <2>1, <2>2
<1> DEFINE x == [r EXCEPT !.pc = "flush", !.crop = isize]
<1>6. /\ x.pc = "flush" /\ x.pages = r.pages /\ x.req = r.req /\ x.page = r.page /\ x.cur = r.cur
      /\ x.op = r.op /\ x.after = r.after /\ x.size = r.size /\ x.crop = isize
  BY <1>2 DEF Registers
<1>7. th' = [th EXCEPT ![t] = x]
  BY <1>1 DEF fuse_writepage_locked, WriteInv, TypeOK
<1> HIDE DEF x
<1>8. ~Releasing(x) /\ (Holds(x) => Holds(r))
  BY <1>3, <1>6 DEF Releasing, Holds
<1>9. Sends(t, x)
  <2>1. \A y \in Sent' : y \in Sent /\ req'[y].idx = req[y].idx /\ req'[y].size = req[y].size
    BY <1>5 DEF Sent
  <2>2. \A y \in Reqs : req[y].st \in {"new", "queued"} => req'[y].idx = req[y].idx
    BY <1>4, <1>5
  <2> QED
    BY <1>3, <1>4, <1>5, <1>6, <2>1, <2>2 DEF Sends
<1>10. Awaits(t, x)
  BY <1>1, <1>3, <1>6 DEF Awaits, Expected, Releasing, Laundering
<1>11. RegsOf(x, req', isize)
  BY <1>2, <1>3, <1>6 DEF RegsOf, Filling, Releasing, Laundering
<1> QED
  BY <1>1, <1>3, <1>6, <1>7, <1>8, <1>9, <1>10, <1>11, BeginsFlush

(* An fsync, or a truncate that failed, lets writes through again.         *)
LEMMA LetsThrough ==
    ASSUME WriteInv, TruncInv, WriteInv', NEW t \in Threads, th[t].pc = "section",
           NEW after, (after = "synced" /\ th[t].op = "fsync") \/ (after = "unlock" /\ th[t].op = "truncate"),
           FcLock(t), fclock' = t, UNCHANGED <<queued, req>>,
           th' = [th EXCEPT ![t].pc = "flush", ![t].crop = isize, ![t].after = after],
           UNCHANGED <<connected, isize, ssize, dirty, plock, pinned>>
    PROVE  TruncInv'
<1>1. PICK r : r = th[t]
  OBVIOUS
<1>2. r \in Registers /\ RegsOf(r, req, isize)
  BY <1>1, Facts
<1> DEFINE x == [r EXCEPT !.pc = "flush", !.crop = isize, !.after = after]
<1>4. /\ x.pc = "flush" /\ x.pages = r.pages /\ x.req = r.req /\ x.page = r.page
      /\ x.op = r.op /\ x.after = after /\ x.size = r.size /\ x.crop = isize
  BY <1>2 DEF Registers
<1>5. th' = [th EXCEPT ![t] = x]
  BY <1>1 DEF WriteInv, TypeOK
<1> HIDE DEF x
<1>6. ~Releasing(x) /\ ~Holds(x)
  BY <1>4 DEF Releasing, Holds
<1>7. Sends(t, x)
  BY DEF Sends, Sent
<1>8. Awaits(t, x)
  BY <1>1 DEF Awaits, Expected, Releasing, Laundering
<1>9. RegsOf(x, req', isize)
  BY <1>1, <1>2, <1>4, <1>6 DEF RegsOf, Filling, Laundering
<1> QED
  BY <1>1, <1>4, <1>5, <1>6, <1>7, <1>8, <1>9, BeginsFlush

LEMMA Trunc_fsync_release ==
    ASSUME WriteInv, TruncInv, WriteInv', NEW t \in Threads, fsync_release(t)
    PROVE  TruncInv'
<1>1. PICK after : after = "synced"
  OBVIOUS
<1>2. /\ th[t].pc = "section" /\ th[t].op = "fsync" /\ FcLock(t) /\ fclock' = t
      /\ UNCHANGED <<queued, req, connected, isize, ssize, dirty, plock, pinned>>
  BY DEF fsync_release, fuse_release_nowrite, At, inodeVars, pageVars, dataVars, srvVars
<1>3. th' = [th EXCEPT ![t].pc = "flush", ![t].crop = isize, ![t].after = after]
  BY <1>1 DEF fsync_release, fuse_release_nowrite
<1>4. (after = "synced" /\ th[t].op = "fsync") \/ (after = "unlock" /\ th[t].op = "truncate")
  BY <1>1, <1>2
<1> QED
  BY <1>2, <1>3, <1>4, LetsThrough
-----------------------------------------------------------------------------
(* The scan, and the pages that a truncate comes to.                       *)
LEMMA Trunc_write_cache_pages ==
    ASSUME WriteInv, TruncInv, WriteInv', NEW t \in Threads, write_cache_pages(t)
    PROVE  TruncInv'
<1>1. PICK r : r = th[t]
  OBVIOUS
<1>2. /\ r \in Registers /\ RegsOf(r, req, isize)
      /\ \A p \in r.pages : InFile(p)
      /\ \A p \in dirty \cup pinned : InFile(p)
      /\ dirty \subseteq Pages /\ pinned \subseteq Pages
  BY <1>1, Facts
<1>3. /\ r.pc = "scan" /\ r.op \in {"flush", "fsync"}
      /\ UNCHANGED <<connected, isize, fclock, req, queued, ssize, pinned>>
  BY <1>1, <1>2 DEF write_cache_pages, RegsOf, Filling, inodeVars, dataVars, srvVars,
                    reqVars,
                    listVars
<1> DEFINE tagged == {p \in Pages : p >= th[t].cur /\ DirtyTag(p)}
<1>4. PICK p : p = Min(tagged)
  OBVIOUS
<1>5. \/ th' = [th EXCEPT ![t] = [r EXCEPT !.pc = "scanned"]] /\ UNCHANGED <<dirty, plock>>
      \/ th' = [th EXCEPT ![t] = [r EXCEPT !.cur = p + 1]] /\ UNCHANGED <<dirty, plock>>
      \/ /\ tagged # {} /\ plock[p] = None
         /\ plock' = [plock EXCEPT ![p] = t] /\ dirty' = dirty \ {p}
         /\ th' = [th EXCEPT ![t] = [r EXCEPT !.pc = "fill", !.page = p]]
  BY <1>1, <1>4 DEF write_cache_pages, Goto, WriteInv, TypeOK
<1>6. ASSUME NEW x, th' = [th EXCEPT ![t] = x], UNCHANGED <<dirty, plock>>,
             x.pc \in {"scan", "scanned"}, x.pages = r.pages, x.op = r.op, x.req = r.req
      PROVE  TruncInv'
  <2>1. Resting(t, x) /\ Awaits(t, x)
    BY <1>1, <1>3, <1>6 DEF Resting, Awaits
  <2>2. ~Holds(x) /\ x.pages \subseteq r.pages /\ r.pc # "truncate"
    BY <1>3, <1>6 DEF Holds
  <2>3. RegsOf(x, req, isize)
    BY <1>2, <1>3, <1>6 DEF RegsOf, Filling, Releasing, Laundering
  <2> QED
    BY <1>1, <1>3, <1>6, <2>1, <2>2, <2>3, SameKeeps
<1>7. CASE th' = [th EXCEPT ![t] = [r EXCEPT !.pc = "scanned"]] /\ UNCHANGED <<dirty, plock>>
  <2> DEFINE x == [r EXCEPT !.pc = "scanned"]
  <2>1. x.pc = "scanned" /\ x.pages = r.pages /\ x.op = r.op /\ x.req = r.req
    BY <1>2 DEF Registers
  <2>2. th' = [th EXCEPT ![t] = x]
    BY <1>7
  <2> HIDE DEF x
  <2> QED
    BY <1>6, <1>7, <2>1, <2>2
<1>8. CASE th' = [th EXCEPT ![t] = [r EXCEPT !.cur = p + 1]] /\ UNCHANGED <<dirty, plock>>
  <2> DEFINE x == [r EXCEPT !.cur = p + 1]
  <2>1. x.pc = r.pc /\ x.pages = r.pages /\ x.op = r.op /\ x.req = r.req
    BY <1>2 DEF Registers
  <2>2. th' = [th EXCEPT ![t] = x]
    BY <1>8
  <2> HIDE DEF x
  <2> QED
    BY <1>3, <1>6, <1>8, <2>1, <2>2
<1>9. CASE /\ tagged # {} /\ plock[p] = None
           /\ plock' = [plock EXCEPT ![p] = t] /\ dirty' = dirty \ {p}
           /\ th' = [th EXCEPT ![t] = [r EXCEPT !.pc = "fill", !.page = p]]
  <2>1. p \in tagged
    <3>1. tagged \in SUBSET (0 .. NumPages - 1) /\ NumPages - 1 \in Nat
      BY FuseWritebackAssumption DEF Pages
    <3> HIDE DEF tagged
    <3> QED
      BY <1>4, <1>9, <3>1, LeastElement
  <2>2. p \in Pages /\ p \in dirty
    BY <1>9, <2>1, FuseWritebackAssumption DEF DirtyTag
  <2> DEFINE x == [r EXCEPT !.pc = "fill", !.page = p]
  <2>3. /\ x.pc = "fill" /\ x.page = p /\ x.pages = r.pages /\ x.op = r.op /\ x.req = r.req
    BY <1>2 DEF Registers
  <2>4. th' = [th EXCEPT ![t] = x]
    BY <1>9
  <2> HIDE DEF x, tagged
  <2>5. Resting(t, x) /\ Awaits(t, x)
    BY <1>1, <1>3, <2>3, <2>4 DEF Resting, Awaits
  <2>6. Locks(t, x) /\ Stays(t, x)
    BY <1>1, <1>2, <1>3, <1>9, <2>2, <2>3 DEF Locks, Stays
  <2>7. RegsOf(x, req, isize)
    BY <1>2, <1>3, <2>3 DEF RegsOf, Filling, Releasing, Laundering
  <2> QED
    BY <2>5, <2>6, <2>7, RestKeeps
<1> QED
  BY <1>5, <1>7, <1>8, <1>9

LEMMA Trunc_invalidate_inode_pages2 ==
    ASSUME WriteInv, TruncInv, WriteInv', NEW t \in Threads, invalidate_inode_pages2(t)
    PROVE  TruncInv'
<1>1. PICK r : r = th[t]
  OBVIOUS
<1>2. /\ r \in Registers /\ RegsOf(r, req, isize) /\ MutexOf(t, r, ilock)
      /\ \A p \in r.pages : InFile(p)
      /\ \A p \in dirty \cup pinned : InFile(p)
      /\ dirty \subseteq Pages /\ pinned \subseteq Pages
  BY <1>1, Facts
<1>3. /\ r.pc = "invalidate" /\ r.op = "truncate" /\ r.cur \in Nat /\ r.req = None
      /\ UNCHANGED <<connected, isize, fclock, req, queued, ssize>>
  BY <1>1, <1>2 DEF invalidate_inode_pages2, RegsOf, MutexOf, Ending, Filling,
                    inodeVars, srvVars,
                    reqVars, listVars, Registers
<1>4. ASSUME NEW u \in Threads, Expected(th[u].pages, r)
      PROVE  \E p \in th[u].pages : p >= r.cur /\ p \in Pages
  BY <1>3, <1>4 DEF Expected, Releasing, Laundering, WriteInv, TypeOK, Registers
<1>5. \/ /\ r.cur \notin Pages /\ UNCHANGED <<dirty, plock, pinned>>
         /\ th' = [th EXCEPT ![t] = [r EXCEPT !.pc = "unlock"]]
      \/ /\ r.cur \in dirty /\ plock[r.cur] = None /\ ~PageWriteback(r.cur)
         /\ plock' = [plock EXCEPT ![r.cur] = t] /\ dirty' = dirty \ {r.cur}
         /\ th' = [th EXCEPT ![t] = [r EXCEPT !.pc = "locked", !.page = r.cur,
                                              !.pages = {r.cur}, !.after = "launder"]]
         /\ UNCHANGED pinned
      \/ /\ ~PageWriteback(r.cur) /\ pinned' = pinned \ {r.cur}
         /\ th' = [th EXCEPT ![t] = [r EXCEPT !.cur = r.cur + 1]]
         /\ UNCHANGED <<dirty, plock>>
  BY <1>1 DEF invalidate_inode_pages2, Goto, pageVars, dataVars, WriteInv, TypeOK
<1>6. ASSUME NEW u \in Threads, Expected(th[u].pages, r), ~PageWriteback(r.cur)
      PROVE  \E p \in th[u].pages : p > r.cur /\ p >= r.cur + 1
  <2>1. PICK p \in th[u].pages : p >= r.cur /\ p \in Pages
    BY <1>4, <1>6
  <2>2. p # r.cur
    BY <1>6, <2>1 DEF PageWriteback
  <2>3. p \in Int /\ r.cur \in Int
    BY <1>3, <2>1 DEF Pages
  <2> QED
    BY <2>1, <2>2, <2>3
<1>7. CASE /\ r.cur \notin Pages /\ UNCHANGED <<dirty, plock, pinned>>
           /\ th' = [th EXCEPT ![t] = [r EXCEPT !.pc = "unlock"]]
  <2> DEFINE x == [r EXCEPT !.pc = "unlock"]
  <2>1. x.pc = "unlock" /\ x.pages = r.pages /\ x.op = r.op /\ x.req = r.req
    BY <1>2 DEF Registers
  <2>2. th' = [th EXCEPT ![t] = x]
    BY <1>7
  <2> HIDE DEF x
  <2>3. Awaits(t, x)
    <3>1. ASSUME NEW u \in Threads, Expected(th[u].pages, r) PROVE FALSE
      <4>1. PICK p \in Pages : p >= r.cur
        BY <1>4, <3>1
      <4> QED
        BY <1>3, <1>7, <4>1, FuseWritebackAssumption DEF Pages
    <3> QED
      BY <1>1, <3>1 DEF Awaits
  <2>4. Resting(t, x)
    BY <1>1, <1>3, <2>1, <2>2 DEF Resting
  <2>5. ~Holds(x) /\ x.pages \subseteq r.pages /\ r.pc # "truncate"
    BY <1>3, <2>1 DEF Holds
  <2>6. RegsOf(x, req, isize)
    BY <1>3, <2>1 DEF RegsOf, Filling, Releasing, Laundering
  <2> QED
    BY <1>1, <1>7, <2>3, <2>4, <2>5, <2>6, SameKeeps
<1>8. CASE /\ r.cur \in dirty /\ plock[r.cur] = None /\ ~PageWriteback(r.cur)
           /\ plock' = [plock EXCEPT ![r.cur] = t] /\ dirty' = dirty \ {r.cur}
           /\ th' = [th EXCEPT ![t] = [r EXCEPT !.pc = "locked", !.page = r.cur,
                                                !.pages = {r.cur}, !.after = "launder"]]
           /\ UNCHANGED pinned
  <2> DEFINE x == [r EXCEPT !.pc = "locked", !.page = r.cur, !.pages = {r.cur},
                            !.after = "launder"]
  <2>1. /\ x.pc = "locked" /\ x.page = r.cur /\ x.pages = {r.cur} /\ x.after = "launder"
        /\ x.op = r.op /\ x.req = r.req /\ x.cur = r.cur
    BY <1>2 DEF Registers
  <2>2. th' = [th EXCEPT ![t] = x]
    BY <1>8
  <2> HIDE DEF x
  <2>3. Laundering(x)
    BY <2>1 DEF Laundering
  <2>4. Awaits(t, x)
    BY <1>1, <1>3, <1>6, <1>8, <2>1, <2>3 DEF Awaits, Expected
  <2>5. Resting(t, x)
    BY <1>1, <1>3, <2>1, <2>2 DEF Resting
  <2>6. Locks(t, x) /\ Stays(t, x)
    BY <1>1, <1>2, <1>3, <1>8, <2>1 DEF Locks, Stays
  <2>7. RegsOf(x, req, isize)
    BY <1>3, <2>1 DEF RegsOf, Filling, Releasing, Laundering
  <2> QED
    BY <2>4, <2>5, <2>6, <2>7, RestKeeps
<1>9. CASE /\ ~PageWriteback(r.cur) /\ pinned' = pinned \ {r.cur}
           /\ th' = [th EXCEPT ![t] = [r EXCEPT !.cur = r.cur + 1]]
           /\ UNCHANGED <<dirty, plock>>
  <2> DEFINE x == [r EXCEPT !.cur = r.cur + 1]
  <2>1. /\ x.pc = "invalidate" /\ x.pages = r.pages /\ x.op = r.op /\ x.req = r.req
        /\ x.cur = r.cur + 1
    BY <1>2, <1>3 DEF Registers
  <2>2. th' = [th EXCEPT ![t] = x]
    BY <1>9
  <2> HIDE DEF x
  <2>3. Awaits(t, x)
    BY <1>1, <1>3, <1>6, <1>9, <2>1 DEF Awaits, Expected
  <2>4. Resting(t, x)
    BY <1>1, <1>3, <2>1, <2>2 DEF Resting
  <2>5. Locks(t, x) /\ Stays(t, x)
    BY <1>1, <1>2, <1>3, <1>9, <2>1 DEF Locks, Stays, Holds
  <2>6. RegsOf(x, req, isize)
    BY <1>3, <2>1 DEF RegsOf, Filling, Releasing, Laundering
  <2> QED
    BY <2>3, <2>4, <2>5, <2>6, RestKeeps
<1> QED
  BY <1>5, <1>7, <1>8, <1>9

(* A step after which the pages in S, the only ones in use, are in the     *)
(* file still.                                                             *)
LEMMA FileMoves ==
    ASSUME WriteInv, FileInv, NEW t \in Threads, NEW x, th' = [th EXCEPT ![t] = x],
           NEW S \in SUBSET Pages, \A n \in S : InFile(n) => InFile(n)',
           \A n \in dirty' \cup pinned' : n \in (dirty \cup pinned) \cap S \/ InFile(n)',
           \A u \in Threads : /\ th[u].pages \subseteq S
                              /\ Holds(th[u]) => th[u].page \in S,
           x.pages \subseteq th[t].pages,
           Holds(x) => Holds(th[t]) /\ x.page = th[t].page /\ x.op = th[t].op
    PROVE  FileInv'
<1>1. /\ th'[t] = x /\ \A u \in Threads \ {t} : th'[u] = th[u]
  BY PlainThreads
<1>2. \A n \in dirty' \cup pinned' : InFile(n)'
  BY DEF FileInv
<1>3. ASSUME NEW u \in Threads
      PROVE  (/\ \A n \in th[u].pages : InFile(n)
              /\ Holds(th[u]) /\ th[u].op # "write" => InFile(th[u].page))'
  <2>1. PICK v : v = th'[u].page
    OBVIOUS
  <2>2. th'[u].pages \subseteq th[u].pages
    BY <1>1
  <2>3. Holds(th'[u]) /\ th'[u].op # "write" => v \in S /\ InFile(v)
    BY <1>1, <2>1 DEF FileInv
  <2>4. Holds(th'[u]) /\ th'[u].op # "write" => InFile(v)'
    BY <2>3
  <2>5. \A n \in th'[u].pages : InFile(n)'
    BY <2>2 DEF FileInv
  <2> QED
    BY <2>1, <2>4, <2>5 DEF InFile, Releasing, Holds
<1> QED
  BY <1>2, <1>3 DEF FileInv

(* The pages that a thread has.                                            *)
LEMMA OwnPages ==
    ASSUME WriteInv
    PROVE  \A u \in Threads : th[u].pages \subseteq Pages /\ th[u].page \in Pages
  BY DEF WriteInv, TypeOK, Registers

(* A thread that truncates is the only one that holds i_mutex.             *)
LEMMA AloneHolding ==
    ASSUME WriteInv, NEW t \in Threads, th[t].op \in Holding
    PROVE  /\ \A u \in Threads \ {t} : /\ th[u].op \notin Holding
                                       /\ ~Releasing(th[u])
                                       /\ th[u].pc \notin {"truncate", "replied"}
           /\ ilock = t
<1>1. \A u \in Threads : MutexOf(u, th[u], ilock)
  BY DEF WriteInv, MutexInv
<1>2. ilock = t
  BY <1>1 DEF MutexOf
<1>3. \A u \in Threads \ {t} : th[u].op \notin Holding
  BY <1>1, <1>2 DEF MutexOf
<1> QED
  BY <1>1, <1>2, <1>3 DEF MutexOf, Holding, Ending, Releasing
-----------------------------------------------------------------------------
(* The truncate, and a write that makes the file longer.                   *)
LEMMA Trunc_truncate_pagecache ==
    ASSUME WriteInv, TruncInv, WriteInv', NEW t \in Threads, truncate_pagecache(t)
    PROVE  TruncInv'
<1>1. PICK r : r = th[t]
  OBVIOUS
<1>2. /\ r \in Registers /\ RegsOf(r, req, isize) /\ MutexOf(t, r, ilock)
      /\ dirty \subseteq Pages /\ pinned \subseteq Pages
      /\ LockedInv /\ FileInv /\ RegsInv /\ CutInv /\ CropInv /\ SentInv /\ DoneInv
      /\ TruncateHolds
  BY <1>1, Facts DEF TruncInv
<1>3. /\ r.pc = "truncate" /\ r.op = "truncate" /\ r.cur \in Nat /\ r.size = isize
      /\ r.req = None /\ isize \in Nat
      /\ UNCHANGED <<connected, isize, fclock, req, queued, ssize>>
  BY <1>1, <1>2 DEF truncate_pagecache, RegsOf, MutexOf, Ending, Filling, inodeVars,
                    srvVars,
                    reqVars, listVars, Registers, WriteInv, TypeOK
<1>4. PICK p : p = Max({r.cur, r.size})
  OBVIOUS
<1>5. p \in Nat /\ p >= r.cur /\ p >= isize /\ p \in {r.cur, isize}
  <2>1. CASE r.cur <= isize
    <3>1. Max({r.cur, isize}) = isize
      BY <1>3, <2>1 DEF Max
    <3> QED
      BY <1>3, <1>4, <2>1, <3>1
  <2>2. CASE r.cur > isize
    <3>1. Max({r.cur, isize}) = r.cur
      BY <1>3, <2>2 DEF Max
    <3> QED
      BY <1>3, <1>4, <2>2, <3>1
  <2> QED
    BY <1>3, <2>1, <2>2
<1>6. \/ /\ p \notin Pages /\ UNCHANGED <<dirty, plock, pinned>>
         /\ th' = [th EXCEPT ![t] = [r EXCEPT !.pc = "invalidate", !.cur = 0]]
      \/ /\ plock[p] = None /\ ~PageWriteback(p) /\ UNCHANGED plock
         /\ dirty' = dirty \ {p} /\ pinned' = pinned \ {p}
         /\ th' = [th EXCEPT ![t] = [r EXCEPT !.cur = p + 1]]
  BY <1>1, <1>4 DEF truncate_pagecache, pageVars, dataVars, WriteInv, TypeOK
<1>7. ASSUME NEW x, th' = [th EXCEPT ![t] = x], x.pc \in {"truncate", "invalidate"},
             x.pages = r.pages, x.op = r.op, x.req = r.req, x.size = r.size,
             UNCHANGED plock, dirty' \subseteq dirty, pinned' \subseteq pinned,
             Awaits(t, x), FileInv'
      PROVE  TruncInv'
  <2>1. x \in Registers
    BY <1>7 DEF WriteInv, TypeOK
  <2>2. Plain(t, x) /\ x.pc # "replied"
    BY <1>1, <1>3, <1>7 DEF Plain
  <2>3. Sends(t, x)
    BY <1>3 DEF Sends, Sent
  <2>4. Locks(t, x)
    BY <1>2, <1>7 DEF Locks, Holds
  <2>5. RegsOf(x, req', isize)
    BY <1>3, <1>7 DEF RegsOf, Filling, Releasing, Laundering
  <2>6. LockedInv' /\ RegsInv' /\ CutInv' /\ CropInv'
    BY <1>2, <1>7, <2>1, <2>2, <2>3, <2>4, <2>5, PlainLocked, PlainRegs, PlainCut,
       PlainCrop
  <2>7. SentInv' /\ DoneInv' /\ TruncateHolds'
    BY <1>2, <1>3, <2>1, <2>2, <2>3, PlainSizes
  <2> QED
    BY <1>7, <2>6, <2>7 DEF TruncInv
<1>8. CASE /\ p \notin Pages /\ UNCHANGED <<dirty, plock, pinned>>
           /\ th' = [th EXCEPT ![t] = [r EXCEPT !.pc = "invalidate", !.cur = 0]]
  <2> DEFINE x == [r EXCEPT !.pc = "invalidate", !.cur = 0]
  <2>1. /\ x.pc = "invalidate" /\ x.pages = r.pages /\ x.op = r.op /\ x.req = r.req
        /\ x.size = r.size /\ x.page = r.page /\ x.cur = 0
    BY <1>2 DEF Registers
  <2>2. th' = [th EXCEPT ![t] = x]
    BY <1>8
  <2> HIDE DEF x
  <2>3. /\ th'[t] = x /\ \A u \in Threads \ {t} : th'[u] = th[u]
    BY <2>2, PlainThreads
  <2>4. Awaits(t, x)
    <3>1. ASSUME NEW u \in Threads \ {t}, th[u].pc = "flush" PROVE \E n \in th[u].pages : n >= 0
      <4>1. th[u].op \notin Holding
        BY <1>1, <1>3, AloneHolding DEF Holding
      <4>2. RegsOf(th[u], req, isize)
        BY <1>2 DEF RegsInv
      <4>3. PICK n \in th[u].pages : TRUE
        BY <3>1, <4>1, <4>2 DEF RegsOf, Holding
      <4>4. n \in Nat
        BY <4>3, OwnPages DEF Pages
      <4> QED
        BY <4>3, <4>4
    <3> QED
      BY <1>3, <2>1, <3>1 DEF Awaits, Expected
  <2>5. ASSUME NEW n \in Pages, InFile(n) PROVE n < isize
    <3>1. CASE n < isize
      BY <3>1
    <3>2. ASSUME NEW o \in Threads,
                 Releasing(th[o]) \/ (th[o].pc = "truncate" /\ th[o].cur <= n)
          PROVE  n < isize
      <4>1. o = t
        BY <1>1, <1>3, <3>2, AloneHolding DEF Holding
      <4>2. r.cur <= n
        BY <1>1, <1>3, <3>2, <4>1 DEF Releasing
      <4> QED
        BY <1>3, <1>5, <1>8, <4>2, FuseWritebackAssumption DEF Pages
    <3>3. \/ n < isize
          \/ \E o \in Threads : Releasing(th[o]) \/ (th[o].pc = "truncate" /\ th[o].cur <= n)
      BY <2>5 DEF InFile
    <3> QED
      BY <3>1, <3>2, <3>3
  <2>6. \A n \in Pages : InFile(n) => InFile(n)'
    BY <1>3, <2>5 DEF InFile
  <2>7. ~Holds(x)
    BY <2>1 DEF Holds
  <2>8. \A n \in dirty' \cup pinned' : n \in (dirty \cup pinned) \cap Pages
    BY <1>2, <1>8
  <2>9. \A u \in Threads : th[u].pages \subseteq Pages /\ (Holds(th[u]) => th[u].page \in Pages)
    BY OwnPages
  <2>10. FileInv'
    BY <1>1, <1>2, <2>1, <2>2, <2>6, <2>7, <2>8, <2>9, FileMoves
  <2> QED
    BY <1>7, <1>8, <2>1, <2>2, <2>4, <2>10
<1>9. CASE /\ plock[p] = None /\ ~PageWriteback(p) /\ UNCHANGED plock
           /\ dirty' = dirty \ {p} /\ pinned' = pinned \ {p}
           /\ th' = [th EXCEPT ![t] = [r EXCEPT !.cur = p + 1]]
  <2> DEFINE x == [r EXCEPT !.cur = p + 1]
             S == Pages \ {p}
  <2>1. /\ x.pc = "truncate" /\ x.pages = r.pages /\ x.op = r.op /\ x.req = r.req
        /\ x.size = r.size /\ x.page = r.page /\ x.cur = p + 1
    BY <1>2, <1>3 DEF Registers
  <2>2. th' = [th EXCEPT ![t] = x]
    BY <1>9
  <2> HIDE DEF x
  <2>3. /\ th'[t] = x /\ \A u \in Threads \ {t} : th'[u] = th[u]
    BY <2>2, PlainThreads
  <2>4. Awaits(t, x)
    BY <1>1, <1>3, <2>1 DEF Awaits, Expected
  <2>5. ASSUME NEW n \in S, InFile(n) PROVE n < isize \/ x.cur <= n
    <3>1. CASE n < isize
      BY <3>1
    <3>2. ASSUME NEW o \in Threads,
                 Releasing(th[o]) \/ (th[o].pc = "truncate" /\ th[o].cur <= n)
          PROVE  n < isize \/ x.cur <= n
      <4>1. o = t
        BY <1>1, <1>3, <3>2, AloneHolding DEF Holding
      <4>2. r.cur <= n
        BY <1>1, <1>3, <3>2, <4>1 DEF Releasing
      <4>3. n \in Nat /\ n # p
        BY DEF Pages
      <4> QED
        BY <1>3, <1>5, <2>1, <4>2, <4>3
    <3>3. \/ n < isize
          \/ \E o \in Threads : Releasing(th[o]) \/ (th[o].pc = "truncate" /\ th[o].cur <= n)
      BY <2>5 DEF InFile
    <3> QED
      BY <3>1, <3>2, <3>3
  <2>6. \A n \in S : InFile(n) => InFile(n)'
    BY <1>3, <2>1, <2>3, <2>5 DEF InFile
  <2>7. ~Holds(x)
    BY <2>1 DEF Holds
  <2>8. \A n \in dirty' \cup pinned' : n \in (dirty \cup pinned) \cap S
    BY <1>2, <1>9
  <2>9. \A u \in Threads : th[u].pages \subseteq S /\ (Holds(th[u]) => th[u].page \in S)
    BY <1>2, <1>9, OwnPages, FuseWritebackAssumption DEF LockedInv, PageWriteback
  <2>10. S \in SUBSET Pages
    OBVIOUS
  <2> HIDE DEF S
  <2>11. FileInv'
    BY <1>1, <1>2, <2>1, <2>2, <2>6, <2>7, <2>8, <2>9, <2>10, FileMoves
  <2> QED
    BY <1>7, <1>9, <2>1, <2>2, <2>4, <2>11
<1> QED
  BY <1>6, <1>8, <1>9

(* While a thread keeps writes off no request is in flight.                *)
LEMMA NoneSent ==
    ASSUME WriteInv, NEW t \in Threads, InSection(t)
    PROVE  Sent = {}
<1>1. writectr = FUSE_NOWRITE /\ writectr = Cardinality(Sent) + FUSE_NOWRITE
  BY DEF WriteInv, WritectrExact, Biased
<1> QED
  BY <1>1, Counts

(* The daemon has truncated its file, or cannot.                           *)
LEMMA Trunc_setattr_request ==
    ASSUME WriteInv, TruncInv, WriteInv', NEW t \in Threads, setattr_request(t)
    PROVE  TruncInv'
<1>1. PICK r : r = th[t]
  OBVIOUS
<1>2. /\ r \in Registers /\ RegsOf(r, req, isize)
      /\ \A p \in r.pages : InFile(p)
      /\ \A p \in dirty \cup pinned : InFile(p)
      /\ dirty \subseteq Pages /\ pinned \subseteq Pages
      /\ LockedInv /\ FileInv /\ RegsInv /\ CutInv /\ CropInv /\ SentInv /\ DoneInv
      /\ TruncateHolds
  BY <1>1, Facts DEF TruncInv
<1>3. /\ r.pc = "section" /\ r.op = "truncate"
      /\ UNCHANGED <<connected, isize, dirty, plock, pinned>>
  BY <1>1 DEF setattr_request, At, inodeVars, pageVars, dataVars
<1>4. \/ /\ ssize' = r.size /\ UNCHANGED <<fclock, req, queued>>
         /\ th' = [th EXCEPT ![t] = [r EXCEPT !.pc = "replied"]]
      \/ /\ FcLock(t) /\ fclock' = t /\ UNCHANGED <<queued, req, ssize>>
         /\ th' = [th EXCEPT ![t].pc = "flush", ![t].crop = isize, ![t].after = "unlock"]
  BY <1>1 DEF setattr_request, fuse_release_nowrite, Goto, reqVars, listVars, srvVars,
              WriteInv, TypeOK
<1>5. CASE /\ FcLock(t) /\ fclock' = t /\ UNCHANGED <<queued, req, ssize>>
           /\ th' = [th EXCEPT ![t].pc = "flush", ![t].crop = isize, ![t].after = "unlock"]
  <2>1. PICK after : after = "unlock"
    OBVIOUS
  <2> QED
    BY <1>1, <1>3, <1>5, <2>1, LetsThrough
<1>6. CASE /\ ssize' = r.size /\ UNCHANGED <<fclock, req, queued>>
           /\ th' = [th EXCEPT ![t] = [r EXCEPT !.pc = "replied"]]
  <2> DEFINE x == [r EXCEPT !.pc = "replied"]
  <2>1. /\ x.pc = "replied" /\ x.pages = r.pages /\ x.op = r.op /\ x.req = r.req
        /\ x.size = r.size /\ x.cur = r.cur
    BY <1>2 DEF Registers
  <2>2. th' = [th EXCEPT ![t] = x]
    BY <1>6
  <2> HIDE DEF x
  <2>3. /\ th'[t] = x /\ \A u \in Threads \ {t} : th'[u] = th[u]
    BY <2>2, PlainThreads
  <2>4. x \in Registers
    BY <2>2 DEF WriteInv, TypeOK
  <2>5. Plain(t, x) /\ Sends(t, x)
    BY <1>1, <1>3, <1>6, <2>1, <2>2 DEF Plain, Sends, Sent
  <2>6. Locks(t, x) /\ Stays(t, x)
    BY <1>1, <1>2, <1>3, <2>1 DEF Locks, Stays, Holds
  <2>7. Awaits(t, x)
    BY <1>1, <1>3 DEF Awaits, Expected, Releasing, Laundering
  <2>8. RegsOf(x, req', isize)
    BY <1>2, <1>3, <1>6, <2>1 DEF RegsOf, Filling, Releasing, Laundering
  <2>9. LockedInv' /\ FileInv'
    BY <1>1, <1>2, <1>3, <2>2, <2>4, <2>6, PlainLocked, PlainFile
  <2>10. RegsInv' /\ CutInv' /\ CropInv'
    BY <1>2, <2>4, <2>5, <2>7, <2>8, PlainRegs, PlainCut, PlainCrop
  <2>11. SentInv'
    BY <1>2, <1>3, <2>5 DEF SentInv, Sends
  <2>12. DoneInv' /\ TruncateHolds'
    <3>1. x.size \in Nat
      BY <2>4 DEF Registers
    <3>2. \A u \in Threads \ {t} : th'[u].pc # "replied"
      BY <1>1, <1>3, <2>3, AloneHolding DEF Holding
    <3>3. ssize' = x.size
      BY <1>6, <2>1
    <3> QED
      BY <1>3, <2>1, <2>3, <3>1, <3>2, <3>3 DEF DoneInv, TruncateHolds, At
  <2> QED
    BY <2>9, <2>10, <2>11, <2>12 DEF TruncInv
<1> QED
  BY <1>4, <1>5, <1>6
(* The new size takes effect.                                              *)
LEMMA Trunc_setattr_apply ==
    ASSUME WriteInv, TruncInv, WriteInv', NEW t \in Threads, setattr_apply(t)
    PROVE  TruncInv'
<1>1. PICK r : r = th[t]
  OBVIOUS
<1>2. /\ r \in Registers /\ RegsOf(r, req, isize) /\ MutexOf(t, r, ilock)
      /\ dirty \subseteq Pages /\ pinned \subseteq Pages
      /\ LockedInv /\ FileInv /\ RegsInv /\ CutInv /\ CropInv /\ SentInv /\ DoneInv
  BY <1>1, Facts DEF TruncInv
<1>3. /\ r.pc = "replied" /\ r.op = "truncate" /\ FcLock(t) /\ fclock' = t /\ isize' = r.size
      /\ UNCHANGED <<connected, ssize, dirty, plock, pinned, queued, req>>
  BY <1>1 DEF setattr_apply, fuse_release_nowrite, At, pageVars, dataVars, srvVars
<1>4. PICK after : after = IF isize = r.size THEN "unlock" ELSE "truncate"
  OBVIOUS
<1>5. (after = "unlock" /\ isize' = isize) \/ after = "truncate"
  BY <1>3, <1>4
<1> DEFINE x == [r EXCEPT !.pc = "flush", !.crop = r.size, !.after = after]
<1>6. /\ x.pc = "flush" /\ x.pages = r.pages /\ x.req = r.req /\ x.page = r.page
      /\ x.op = r.op /\ x.after = after /\ x.size = r.size /\ x.crop = r.size /\ x.cur = r.cur
  BY <1>2 DEF Registers
<1>7. th' = [th EXCEPT ![t] = x]
  BY <1>1, <1>4 DEF setattr_apply, fuse_release_nowrite, WriteInv, TypeOK
<1> HIDE DEF x
<1>8. /\ th'[t] = x /\ \A u \in Threads \ {t} : th'[u] = th[u]
  BY <1>7, PlainThreads
<1>9. x \in Registers /\ ~Holds(x) /\ (Releasing(x) <=> after = "truncate")
  BY <1>5, <1>6, <1>7 DEF Holds, Releasing, WriteInv, TypeOK
<1>10. \A u \in Threads \ {t} : ~Releasing(th[u]) /\ th[u].pc \notin {"truncate", "replied"}
  BY <1>1, <1>3, AloneHolding DEF Holding
<1>11. LockedInv'
  <2>1. Locks(t, x)
    BY <1>2, <1>3, <1>9 DEF Locks
  <2> QED
    BY <1>2, <1>7, <1>9, <2>1, PlainLocked
<1>12. FileInv'
  <2>1. \A n \in Pages : InFile(n) => InFile(n)'
    <3>1. CASE after = "truncate"
      BY <1>8, <1>9, <3>1 DEF InFile
    <3>2. CASE isize' = isize
      <4>1. ASSUME NEW n \in Pages, InFile(n) PROVE n < isize
        BY <1>1, <1>3, <1>10, <4>1 DEF InFile, Releasing
      <4> QED
        BY <3>2, <4>1 DEF InFile
    <3> QED
      BY <1>5, <3>1, <3>2
  <2>2. \A n \in dirty' \cup pinned' : n \in (dirty \cup pinned) \cap Pages
    BY <1>2, <1>3
  <2>3. \A u \in Threads : th[u].pages \subseteq Pages /\ (Holds(th[u]) => th[u].page \in Pages)
    BY OwnPages
  <2> QED
    BY <1>1, <1>2, <1>6, <1>7, <1>9, <2>1, <2>2, <2>3, FileMoves
<1>13. RegsInv'
  <2>1. RegsOf(x, req', isize')
    BY <1>2, <1>3, <1>5, <1>6 DEF RegsOf, Filling, Releasing, Laundering
  <2>2. ASSUME NEW u \in Threads \ {t} PROVE RegsOf(th[u], req', isize')
    BY <1>2, <1>3, <1>10 DEF RegsInv, RegsOf
  <2> QED
    BY <1>8, <2>1, <2>2 DEF RegsInv
<1>14. CutInv'
  <2>1. CASE after = "truncate"
    BY <1>8, <1>9, <2>1 DEF CutInv
  <2>2. CASE isize' = isize
    <3>1. ASSUME NEW n, \/ n < isize
                        \/ \E o \in Threads : Releasing(th[o])
                        \/ \E u \in Threads : th[u].pc = "flush" /\ n \in th[u].pages
          PROVE  \/ n < isize'
                 \/ \E u \in Threads : th'[u].pc = "flush" /\ n \in th'[u].pages
      BY <1>1, <1>3, <1>8, <1>10, <2>2, <3>1 DEF Releasing
    <3> QED
      BY <1>2, <1>3, <3>1 DEF CutInv
  <2> QED
    BY <1>5, <2>1, <2>2
<1>15. CropInv'
  <2>1. SUFFICES ASSUME connected, NEW u \in Threads \ {t}, th[u].pc = "flush"
                 PROVE  FALSE
    BY <1>3, <1>6, <1>8 DEF CropInv, Expected, Releasing, Laundering
  <2>2. fclock # u
    BY <1>3, FuseWritebackAssumption DEF FcLock
  <2>3. PICK o \in Threads : th[o].op = "truncate" /\ Expected(th[u].pages, th[o])
    BY <1>2, <2>1, <2>2 DEF CropInv
  <2>4. o = t
    BY <1>1, <1>3, <2>3, AloneHolding DEF Holding
  <2> QED
    BY <1>1, <1>3, <2>3, <2>4 DEF Expected, Releasing, Laundering
<1>16. SentInv'
  <2>1. Sent' = {}
    BY <1>1, <1>3, NoneSent DEF Sent, InSection
  <2> QED
    BY <2>1 DEF SentInv
<1>17. DoneInv' /\ TruncateHolds'
  <2>1. ssize <= r.size
    BY <1>1, <1>2, <1>3 DEF DoneInv
  <2> QED
    BY <1>2, <1>3, <1>6, <1>8, <1>10, <2>1 DEF DoneInv, TruncateHolds
<1> QED
  BY <1>11, <1>12, <1>13, <1>14, <1>15, <1>16, <1>17 DEF TruncInv

(* A write makes the file longer.                                          *)
LEMMA Trunc_fuse_write_end ==
    ASSUME WriteInv, TruncInv, WriteInv', NEW t \in Threads, fuse_write_end(t)
    PROVE  TruncInv'
<1>1. PICK r : r = th[t]
  OBVIOUS
<1>2. /\ r \in Registers /\ Holds(r) /\ r.pc = "store" /\ r.op = "write" /\ r.page \in Nat
      /\ dirty \subseteq Pages /\ pinned \subseteq Pages /\ isize \in Nat
      /\ LockedInv /\ FileInv /\ RegsInv /\ CutInv /\ CropInv /\ SentInv /\ DoneInv
      /\ TruncateHolds /\ ssize \in Nat
  <2>1. r \in Registers /\ dirty \subseteq Pages /\ pinned \subseteq Pages
    BY <1>1, Facts
  <2>2. r.pc = "store" /\ r.op = "write" /\ Holds(r)
    BY <1>1 DEF fuse_write_end, At, Holds
  <2>3. r.page \in Nat /\ isize \in Nat
    BY <2>1 DEF Registers, Pages, WriteInv, TypeOK
  <2> QED
    BY <2>1, <2>2, <2>3 DEF TruncInv, DoneInv
<1>3. /\ FcLock(t) /\ th' = [th EXCEPT ![t] = Idle] /\ plock' = [plock EXCEPT ![r.page] = None]
      /\ UNCHANGED <<connected, fclock, ssize, pinned, queued, req>>
  BY <1>1 DEF fuse_write_end, reqVars, listVars, srvVars
<1>4. /\ dirty' \subseteq dirty \cup {r.page} /\ isize' \in Nat /\ isize <= isize'
      /\ r.page \in dirty' \ dirty => r.page < isize'
  <2>1. CASE dirty' = dirty \cup {r.page} /\ isize' = Max({isize, r.page + 1})
    <3>1. PICK n \in Nat : n = r.page + 1
      BY <1>2
    <3>2. CASE isize >= n
      <4>1. Max({isize, n}) = isize
        BY <1>2, <3>2 DEF Max
      <4> QED
        BY <1>2, <2>1, <3>1, <3>2, <4>1
    <3>3. CASE isize < n
      <4>1. Max({isize, n}) = n
        BY <1>2, <3>3 DEF Max
      <4> QED
        BY <1>2, <2>1, <3>1, <3>3, <4>1
    <3> QED
      BY <1>2, <3>2, <3>3
  <2>2. CASE UNCHANGED <<isize, dirty>>
    BY <1>2, <2>2
  <2> QED
    BY <1>1, <2>1, <2>2 DEF fuse_write_end, Store
<1>5. /\ th'[t] = Idle /\ \A u \in Threads \ {t} : th'[u] = th[u]
  BY <1>3, PlainThreads
<1>6. \A u \in Threads : th[u].op # "truncate" /\ ~Releasing(th[u])
                         /\ th[u].pc \notin {"truncate", "replied"}
  BY <1>1, <1>2, AloneHolding DEF Holding, Releasing
<1>7. LockedInv'
  <2>1. Idle \in Registers /\ Locks(t, Idle)
    BY <1>1, <1>2, <1>3, <1>4, IdleRegisters, OwnPages DEF Locks, Holds, Idle
  <2> QED
    BY <1>2, <1>3, <2>1, PlainLocked
<1>8. FileInv'
  <2>1. \A n \in Pages : InFile(n) => n < isize
    BY <1>6 DEF InFile
  <2>2. \A n \in Pages : InFile(n) => InFile(n)'
    BY <1>2, <1>4, <2>1 DEF InFile, Pages
  <2>3. \A n \in dirty' \cup pinned' : n \in (dirty \cup pinned) \cap Pages \/ InFile(n)'
    BY <1>2, <1>3, <1>4 DEF InFile
  <2>4. \A u \in Threads : th[u].pages \subseteq Pages /\ (Holds(th[u]) => th[u].page \in Pages)
    BY OwnPages
  <2>5. Idle.pages = {} /\ ~Holds(Idle)
    BY DEF Idle, Holds
  <2> QED
    BY <1>2, <1>3, <2>2, <2>3, <2>4, <2>5, FileMoves
<1>9. RegsInv'
  <2>1. ASSUME NEW u \in Threads PROVE RegsOf(th[u], req', isize')
    BY <1>2, <1>3, <1>6 DEF RegsInv, RegsOf
  <2> QED
    BY <1>5, <2>1, IdleRegs DEF RegsInv
<1>10. CutInv'
  <2>1. ASSUME NEW n \in Nat, \/ n < isize
                              \/ \E o \in Threads : Releasing(th[o])
                              \/ \E u \in Threads : th[u].pc = "flush" /\ n \in th[u].pages
        PROVE  \/ n < isize'
               \/ \E u \in Threads : th'[u].pc = "flush" /\ n \in th'[u].pages
    BY <1>1, <1>2, <1>4, <1>5, <1>6, <2>1
  <2>2. \A i \in 1 .. Len(queued) : req[queued[i]].idx \in Nat
    <3>1. \A q \in Reqs : req[q].idx \in Nat
      BY RequestTypes
    <3>2. \A i \in 1 .. Len(queued) : queued[i] \in Reqs
      BY ElementOfSeq DEF WriteInv, TypeOK
    <3> QED
      BY <3>1, <3>2
  <2> QED
    BY <1>2, <1>3, <2>1, <2>2 DEF CutInv
<1>11. CropInv'
  <2>1. SUFFICES ASSUME connected, NEW u \in Threads, th[u].pc = "flush"
                 PROVE  FALSE
    BY <1>3, <1>5 DEF CropInv, Expected, Releasing, Laundering, Idle
  <2>2. fclock # u
    BY <1>1, <1>2, <1>3, <2>1, FuseWritebackAssumption DEF FcLock
  <2> QED
    BY <1>2, <1>6, <2>1, <2>2 DEF CropInv
<1>12. SentInv'
  <2>1. Sent' = Sent
    BY <1>3 DEF Sent
  <2>2. \A q \in Sent : req[q].idx \in Nat /\ req[q].size \in Nat
    <3>1. \A q \in Reqs : req[q].idx \in Nat /\ req[q].size \in Nat
      BY RequestTypes
    <3> QED
      BY <3>1 DEF Sent
  <2> QED
    BY <1>2, <1>3, <1>4, <2>1, <2>2 DEF SentInv
<1>13. DoneInv'
  BY <1>2, <1>3, <1>5, <1>6 DEF DoneInv, Idle
<1>14. TruncateHolds'
  <2>1. ssize <= isize
    BY <1>2, <1>6 DEF TruncateHolds, At
  <2> QED
    BY <1>2, <1>3, <1>4, <2>1 DEF TruncateHolds
<1> QED
  BY <1>7, <1>8, <1>9, <1>10, <1>11, <1>12, <1>13, <1>14 DEF TruncInv
-----------------------------------------------------------------------------
(* The queue is flushed, and requests come to their end.                   *)

(* The threads and the pages are as they were.                             *)
LEMMA SameThreads ==
    ASSUME WriteInv, TruncInv, UNCHANGED <<th, isize, plock, dirty, pinned>>,
           \A y \in Reqs : req[y].st = "new" => req'[y].idx = req[y].idx
    PROVE  LockedInv' /\ FileInv' /\ RegsInv'
<1>1. LockedInv'
  BY DEF TruncInv, LockedInv, Holds
<1>2. FileInv'
  BY DEF TruncInv, FileInv, InFile, Holds, Releasing
<1>3. ASSUME NEW u \in Threads PROVE RegsOf(th[u], req', isize)
  <2>1. PICK y : y = th[u]
    OBVIOUS
  <2>2. RegsOf(y, req, isize) /\ (y.req # None => req'[y.req].idx = req[y.req].idx)
    BY <2>1, OwnRequest DEF TruncInv, RegsInv
  <2>3. RegsOf(y, req', isize)
    BY <2>2 DEF RegsOf
  <2> QED
    BY <2>1, <2>3
<1> QED
  BY <1>1, <1>2, <1>3 DEF RegsInv

(* A step of the daemon, or of the end of a request.                       *)
LEMMA ServedTruncates ==
    ASSUME WriteInv, TruncInv,
           UNCHANGED <<th, isize, connected, queued, plock, dirty, pinned>>,
           \A y \in Reqs : req[y].st \in {"new", "queued"} => req'[y].idx = req[y].idx,
           fclock' = fclock \/ fclock \notin Threads,
           \A y \in Sent' : \/ y \in Sent /\ req'[y].idx = req[y].idx /\ req'[y].size = req[y].size
                            \/ req'[y].idx + req'[y].size <= isize,
           \/ ssize' = ssize
           \/ ssize' \in Nat /\ ssize' <= isize /\ \A t \in Threads : ~InSection(t)
    PROVE  TruncInv'
<1>1. CutInv /\ CropInv /\ SentInv /\ DoneInv /\ TruncateHolds
  BY DEF TruncInv
<1>2. LockedInv' /\ FileInv' /\ RegsInv'
  BY SameThreads
<1>3. CutInv'
  <2>1. \A i \in 1 .. Len(queued) : req'[queued[i]].idx = req[queued[i]].idx
    <3>1. \A i \in 1 .. Len(queued) : queued[i] \in Reqs /\ req[queued[i]].st = "queued"
      BY ElementOfSeq DEF WriteInv, TypeOK, QueueInv
    <3> QED
      BY <3>1
  <2> QED
    BY <1>1, <2>1 DEF CutInv, Releasing
<1>4. CropInv'
  BY <1>1 DEF CropInv, Expected, Releasing, Laundering
<1>5. SentInv'
  BY <1>1 DEF SentInv
<1>6. DoneInv' /\ TruncateHolds'
  <2>1. CASE ssize' = ssize
    BY <1>1, <2>1 DEF DoneInv, TruncateHolds, At
  <2>2. CASE ssize' \in Nat /\ ssize' <= isize /\ \A t \in Threads : ~InSection(t)
    BY <2>2 DEF DoneInv, TruncateHolds, InSection
  <2> QED
    BY <2>1, <2>2
<1> QED
  BY <1>2, <1>3, <1>4, <1>5, <1>6 DEF TruncInv

(* fuse_send_writepage crops the request, or drops it.                     *)
LEMMA Cropped ==
    ASSUME WriteInv, NEW q \in Reqs, NEW size \in Nat, NEW h,
           NEW r \in [Reqs -> Request], NEW w,
           fuse_send_writepage(r, w, q, size, h),
           \A y \in Reqs : r[y].st = req[y].st /\ r[y].idx = req[y].idx /\ r[y].size = req[y].size
    PROVE  /\ \A y \in Reqs \ {q} : /\ req'[y].idx = req[y].idx /\ req'[y].size = req[y].size
                                    /\ req'[y].st = req[y].st
           /\ \/ /\ connected /\ req'[q].idx + req'[q].size <= size /\ fclock' = h
              \/ /\ ~(connected /\ req[q].idx < size) /\ req'[q].st = "free" /\ fclock' = None
<1>1. CASE connected /\ r[q].idx < size
  <2>1. PICK n : n = Min({Len(r[q].data), size - r[q].idx})
    OBVIOUS
  <2>2. /\ req' = [r EXCEPT ![q].st = "pending", ![q].size = n] /\ fclock' = h
    BY <1>1, <2>1 DEF fuse_send_writepage
  <2>3. /\ \A y \in Reqs \ {q} : req'[y] = r[y]
        /\ req'[q] = [r[q] EXCEPT !.st = "pending", !.size = n] /\ r[q] \in Request
    BY <2>2
  <2>4. req'[q].idx = r[q].idx /\ req'[q].size = n
    BY <2>3 DEF Request
  <2>5. Len(r[q].data) \in Nat /\ r[q].idx \in Nat
    BY <2>3, LenProperties DEF Request, Pages
  <2>6. r[q].idx + n <= size
    <3>1. PICK a \in Nat, b \in Nat : a = Len(r[q].data) /\ b = size - r[q].idx
      BY <1>1, <2>5
    <3>2. Min({b, a}) \in Nat /\ Min({b, a}) <= b
      BY TwoNumbers
    <3>3. {b, a} = {a, b}
      OBVIOUS
    <3>4. n \in Nat /\ n <= b
      BY <2>1, <3>1, <3>2, <3>3
    <3> QED
      BY <2>5, <3>1, <3>4
  <2> QED
    BY <1>1, <2>2, <2>3, <2>4, <2>6
<1>2. CASE ~(connected /\ r[q].idx < size)
  <2>1. req' = [r EXCEPT ![q] = FreeReq] /\ fclock' = None
    BY <1>2 DEF fuse_send_writepage
  <2>2. req'[q] = FreeReq /\ \A y \in Reqs \ {q} : req'[y] = r[y]
    BY <2>1
  <2> QED
    BY <1>2, <2>1, <2>2 DEF FreeReq
<1> QED
  BY <1>1, <1>2

(* The file is being truncated, and pages that are cut off are waited for. *)
LEMMA CutOff ==
    ASSUME WriteInv, TruncInv, NEW n \in Pages, n >= isize,
           \/ \E o \in Threads : Releasing(th[o])
           \/ \E u \in Threads : th[u].pc = "flush" /\ n \in th[u].pages
    PROVE  \E o \in Threads : /\ th[o].op = "truncate" /\ \A s : Expected(s, th[o])
                              /\ Releasing(th[o]) \/ th[o].pc = "truncate"
<1>1. n \in Nat /\ isize \in Nat /\ ~(n < isize)
  BY DEF Pages, WriteInv, TypeOK
<1>2. \E o \in Threads : Releasing(th[o]) \/ th[o].pc = "truncate"
  <2>1. CASE \E o \in Threads : Releasing(th[o])
    BY <2>1
  <2>2. CASE \E u \in Threads : th[u].pc = "flush" /\ n \in th[u].pages
    <3>1. InFile(n)
      BY <2>2 DEF TruncInv, FileInv
    <3> QED
      BY <1>1, <3>1 DEF InFile
  <2> QED
    BY <2>1, <2>2
<1>3. \A o \in Threads : MutexOf(o, th[o], ilock)
  BY DEF WriteInv, MutexInv
<1> QED
  BY <1>2, <1>3 DEF MutexOf, Ending, Releasing, Expected

(* One request of the queue is sent or dropped.                            *)
LEMMA TakesOne ==
    ASSUME WriteInv, TruncInv, NEW t \in Threads, fuse_flush_writepages(t),
           writectr >= 0, queued # <<>>
    PROVE  TruncInv'
<1>1. PICK r \in Registers : r = th[t]
  BY DEF WriteInv, TypeOK
<1>2. /\ CutInv /\ CropInv /\ SentInv /\ DoneInv /\ TruncateHolds
      /\ r.pc = "flush" /\ FcLock(t) /\ queued' = Tail(queued)
      /\ UNCHANGED <<th, connected, isize, ssize, dirty, plock, pinned>>
      /\ fuse_send_writepage(req, writepages, Head(queued), r.crop, t)
  BY <1>1 DEF TruncInv, fuse_flush_writepages, inodeVars, pageVars, dataVars, srvVars
<1>3. /\ queued \in Seq(Reqs)
      /\ \A i \in 1 .. Len(queued) : queued[i] \in Reqs /\ req[queued[i]].st = "queued"
      /\ \A i, j \in 1 .. Len(queued) : queued[i] = queued[j] => i = j
  BY ElementOfSeq DEF WriteInv, TypeOK, QueueInv
<1>4. /\ Head(queued) \in Reqs /\ queued' \in Seq(Reqs) /\ Len(queued) \in Nat \ {0}
      /\ Head(queued) = queued[1] /\ Len(queued') = Len(queued) - 1
      /\ \A i \in 1 .. Len(queued') : queued'[i] = queued[i + 1]
  BY <1>2, <1>3, EmptySeq, HeadTailProperties
<1>5. PICK q \in Reqs : q = Head(queued)
  BY <1>4
<1>6. q = queued[1] /\ 1 \in 1 .. Len(queued) /\ req[q].st = "queued"
  BY <1>3, <1>4, <1>5
<1>7. \A i \in 1 .. Len(queued') : i + 1 \in 1 .. Len(queued) /\ i + 1 # 1
  BY <1>4
<1>8. \A i \in 1 .. Len(queued') : queued'[i] = queued[i + 1] /\ queued'[i] \in Reqs \ {q}
  BY <1>3, <1>4, <1>6, <1>7
<1>9. PICK size \in Nat : size = r.crop
  BY DEF Registers
<1>10. /\ \A y \in Reqs \ {q} : /\ req'[y].idx = req[y].idx /\ req'[y].size = req[y].size
                                /\ req'[y].st = req[y].st
       /\ \/ /\ connected /\ req'[q].idx + req'[q].size <= size /\ fclock' = t
          \/ /\ ~(connected /\ req[q].idx < size) /\ req'[q].st = "free" /\ fclock' = None
  <2>1. fuse_send_writepage(req, writepages, q, size, t)
    BY <1>2, <1>5, <1>9
  <2>2. req \in [Reqs -> Request]
    BY DEF WriteInv, TypeOK
  <2>3. \A y \in Reqs : req[y].st = req[y].st /\ req[y].idx = req[y].idx /\ req[y].size = req[y].size
    OBVIOUS
  <2> QED
    BY <2>1, <2>2, <2>3, Cropped
<1>11. connected => size = isize
  BY <1>1, <1>2, <1>9 DEF CropInv
<1>12. LockedInv' /\ FileInv' /\ RegsInv'
  <2>1. \A y \in Reqs : req[y].st = "new" => req'[y].idx = req[y].idx
    BY <1>6, <1>10
  <2> QED
    BY <1>2, <2>1, SameThreads
<1>13. CutInv'
  <2>1. \A i \in 1 .. Len(queued') : req'[queued'[i]].idx = req[queued[i + 1]].idx
    BY <1>8, <1>10
  <2> QED
    BY <1>2, <1>7, <2>1 DEF CutInv, Releasing
<1>14. CropInv'
  <2>1. CASE fclock' = t
    BY <1>2, <2>1, FuseWritebackAssumption DEF CropInv, FcLock, Expected, Releasing,
                                               Laundering
  <2>2. CASE connected /\ req[q].idx >= isize
    <3>1. PICK n \in Pages : n = req[q].idx
      BY RequestTypes
    <3>2. \/ \E o \in Threads : Releasing(th[o])
          \/ \E u \in Threads : th[u].pc = "flush" /\ n \in th[u].pages
      <4>1. n \in Nat /\ isize \in Nat /\ ~(n < isize)
        BY <2>2, <3>1 DEF Pages, WriteInv, TypeOK
      <4> QED
        BY <1>2, <1>6, <3>1, <4>1 DEF CutInv
    <3>3. PICK o \in Threads : th[o].op = "truncate" /\ \A s : Expected(s, th[o])
      BY <2>2, <3>1, <3>2, CutOff
    <3>4. th' = th /\ UNCHANGED <<isize, connected>>
      BY <1>2
    <3>5. \A u \in Threads : Expected(th[u].pages, th[o])
      BY <3>3
    <3>6. \A u \in Threads : th[u].pc = "flush" => th[u].crop = isize
      BY <1>2, <2>2 DEF CropInv
    <3> QED
      BY <3>3, <3>4, <3>5, <3>6 DEF CropInv, Expected, Releasing, Laundering
  <2>3. CASE ~connected
    BY <1>2, <2>3 DEF CropInv
  <2> QED
    <3>1. req[q].idx \in Nat /\ isize \in Nat
      BY RequestTypes DEF WriteInv, TypeOK
    <3> QED
      BY <1>10, <1>11, <2>1, <2>2, <2>3, <3>1
<1>15. SentInv'
  <2>1. ASSUME NEW y \in Sent' PROVE req'[y].idx + req'[y].size <= isize
    <3>1. CASE y # q
      <4>1. y \in Sent /\ req'[y].idx = req[y].idx /\ req'[y].size = req[y].size
        BY <1>10, <3>1 DEF Sent
      <4> QED
        BY <1>2, <4>1 DEF SentInv
    <3>2. CASE y = q
      BY <1>10, <1>11, <2>1, <3>2 DEF Sent
    <3> QED
      BY <3>1, <3>2
  <2> QED
    BY <1>2, <2>1 DEF SentInv
<1>16. DoneInv' /\ TruncateHolds'
  BY <1>2 DEF DoneInv, TruncateHolds, At
<1> QED
  BY <1>12, <1>13, <1>14, <1>15, <1>16 DEF TruncInv
(* The queue is empty or must wait: PageWriteback ends for the pages of    *)
(* the thread.                                                             *)
LEMMA EndsFlush ==
    ASSUME WriteInv, TruncInv, WriteInv', NEW t \in Threads, fuse_flush_writepages(t),
           ~(writectr >= 0 /\ queued # <<>>)
    PROVE  TruncInv'
<1>1. PICK r : r = th[t]
  OBVIOUS
<1>2. /\ r \in Registers /\ RegsOf(r, req, isize) /\ MutexOf(t, r, ilock)
      /\ Holds(r) => plock[r.page] = t
      /\ dirty \subseteq Pages /\ pinned \subseteq Pages
      /\ LockedInv /\ FileInv /\ RegsInv /\ CutInv /\ CropInv /\ SentInv /\ DoneInv
      /\ TruncateHolds
  BY <1>1, Facts DEF TruncInv
<1>3. /\ r.pc = "flush" /\ FcLock(t) /\ fclock' = None
      /\ UNCHANGED <<connected, isize, ssize, dirty, plock, pinned, queued, req>>
  BY <1>1 DEF fuse_flush_writepages, inodeVars, pageVars, dataVars, srvVars, listVars
<1>4. /\ r.after \in {"alloc", "written", "reclaimed", "launder", "synced", "unlock", "truncate"}
      /\ r.req = None
  BY <1>2, <1>3 DEF RegsOf, Filling
<1> DEFINE x == [r EXCEPT !.pc = r.after, !.pages = {}, !.crop = 0, !.after = "idle"]
<1>5. /\ x.pc = r.after /\ x.pages = {} /\ x.req = r.req /\ x.page = r.page /\ x.after = "idle"
      /\ x.op = r.op /\ x.size = r.size /\ x.cur = r.cur
  BY <1>2 DEF Registers
<1>6. th' = [th EXCEPT ![t] = x]
  BY <1>1 DEF fuse_flush_writepages, WriteInv, TypeOK
<1> HIDE DEF x
<1>7. x \in Registers
  BY <1>6 DEF WriteInv, TypeOK
<1>8. /\ th'[t] = x /\ \A u \in Threads \ {t} : th'[u] = th[u]
  BY <1>6, PlainThreads
<1>9. Releasing(r) => /\ r.op = "truncate" /\ r.cur = 0 /\ r.size = isize /\ x.pc = "truncate"
  BY <1>2, <1>5 DEF RegsOf, MutexOf, Ending, Releasing
<1>10. Holds(x) => Holds(r)
  BY <1>3, <1>4, <1>5 DEF Holds
<1>11. LockedInv'
  <2>1. Locks(t, x)
    BY <1>1, <1>2, <1>3, <1>5, <1>10 DEF Locks
  <2> QED
    BY <1>2, <1>6, <1>7, <2>1, PlainLocked
<1>12. FileInv'
  <2>1. ASSUME NEW n \in Pages, InFile(n) PROVE InFile(n)'
    <3>1. CASE n < isize
      BY <1>3, <3>1 DEF InFile
    <3>2. ASSUME NEW o \in Threads,
                 Releasing(th[o]) \/ (th[o].pc = "truncate" /\ th[o].cur <= n)
          PROVE  InFile(n)'
      <4>1. CASE o = t
        <5>1. n \in Nat
          BY DEF Pages
        <5>2. x.pc = "truncate" /\ x.cur <= n
          BY <1>1, <1>3, <1>5, <1>9, <3>2, <4>1, <5>1
        <5> QED
          BY <1>8, <5>2 DEF InFile
      <4>2. CASE o # t
        BY <1>8, <3>2, <4>2 DEF InFile, Releasing
      <4> QED
        BY <4>1, <4>2
    <3>3. \/ n < isize
          \/ \E o \in Threads : Releasing(th[o]) \/ (th[o].pc = "truncate" /\ th[o].cur <= n)
      BY <2>1 DEF InFile
    <3> QED
      BY <3>1, <3>2, <3>3
  <2>2. \A n \in dirty' \cup pinned' : n \in (dirty \cup pinned) \cap Pages
    BY <1>2, <1>3
  <2>3. \A u \in Threads : th[u].pages \subseteq Pages /\ (Holds(th[u]) => th[u].page \in Pages)
    BY OwnPages
  <2> QED
    BY <1>1, <1>2, <1>5, <1>6, <1>10, <2>1, <2>2, <2>3, FileMoves
<1>13. RegsInv'
  <2>1. RegsOf(x, req, isize)
    BY <1>2, <1>3, <1>4, <1>5 DEF RegsOf, Filling, Releasing, Laundering
  <2> QED
    BY <1>2, <1>3, <1>8, <2>1 DEF RegsInv
<1>14. CutInv'
  <2>1. CASE queued = <<>>
    BY <1>3, <2>1 DEF CutInv
  <2>2. CASE queued # <<>>
    <3>1. PICK b \in Threads : th[b].pc = "waitwrites" \/ InSection(b)
      <4>1. Biased
        BY <2>2, Counts DEF WriteInv, TypeOK, WritectrExact
      <4> QED
        BY <4>1 DEF Biased
    <3>2. /\ b # t /\ th[b].op \in Holding /\ th[b].pc \notin {"truncate", "flush"}
      BY <1>1, <1>3, <3>1 DEF InSection, WriteInv, MutexInv, MutexOf, Holding, Ending
    <3>3. \A o \in Threads : ~Releasing(th[o]) /\ th[o].pc # "truncate"
      BY <3>2, AloneHolding DEF Releasing
    <3>4. ASSUME NEW n \in Pages, \/ n < isize
                                  \/ \E u \in Threads : th[u].pc = "flush" /\ n \in th[u].pages
          PROVE  \/ n < isize'
                 \/ \E u \in Threads : th'[u].pc = "flush" /\ n \in th'[u].pages
      <4>1. CASE n < isize
        BY <1>3, <4>1
      <4>2. ASSUME NEW u \in Threads, th[u].pc = "flush", n \in th[u].pages, u = t
            PROVE  n < isize
        <5>1. InFile(n)
          BY <1>2, <4>2 DEF FileInv
        <5> QED
          BY <3>3, <5>1 DEF InFile
      <4> QED
        BY <1>3, <1>8, <3>4, <4>1, <4>2
    <3>5. ASSUME NEW i \in 1 .. Len(queued)
          PROVE  \/ req[queued[i]].idx < isize'
                 \/ \E u \in Threads : th'[u].pc = "flush" /\ req[queued[i]].idx \in th'[u].pages
      <4>1. req[queued[i]].idx \in Pages
        BY ElementOfSeq DEF WriteInv, TypeOK, Request
      <4>2. PICK n \in Pages : n = req[queued[i]].idx
        BY <4>1
      <4>3. n < isize \/ \E u \in Threads : th[u].pc = "flush" /\ n \in th[u].pages
        BY <1>2, <3>3, <4>2 DEF CutInv
      <4> QED
        BY <3>4, <4>2, <4>3
    <3> QED
      BY <1>3, <3>5 DEF CutInv
  <2> QED
    BY <2>1, <2>2
<1>15. CropInv'
  <2>1. ASSUME connected, NEW u \in Threads, th'[u].pc = "flush"
        PROVE  /\ th'[u].crop = isize
               /\ \E o \in Threads : th'[o].op = "truncate" /\ Expected(th'[u].pages, th'[o])
    <3>1. u # t
      BY <1>4, <1>5, <1>8, <2>1
    <3>2. th'[u] = th[u] /\ fclock # u
      BY <1>3, <1>8, <3>1, FuseWritebackAssumption DEF FcLock
    <3>3. PICK o \in Threads : th[o].op = "truncate" /\ Expected(th[u].pages, th[o])
      BY <1>2, <2>1, <3>2 DEF CropInv
    <3>4. th'[o].op = "truncate" /\ Expected(th[u].pages, th'[o])
      <4>1. CASE o = t
        BY <1>1, <1>3, <1>5, <1>8, <3>3, <4>1 DEF Expected, Releasing, Laundering
      <4>2. CASE o # t
        BY <1>8, <3>3, <4>2
      <4> QED
        BY <4>1, <4>2
    <3> QED
      BY <1>2, <2>1, <3>2, <3>4 DEF CropInv
  <2> QED
    BY <1>3, <2>1 DEF CropInv, Expected, Releasing, Laundering
<1>16. SentInv'
  BY <1>2, <1>3 DEF SentInv, Sent
<1>17. DoneInv' /\ TruncateHolds'
  BY <1>1, <1>2, <1>3, <1>4, <1>5, <1>8 DEF DoneInv, TruncateHolds, At
<1> QED
  BY <1>11, <1>12, <1>13, <1>14, <1>15, <1>16, <1>17 DEF TruncInv

LEMMA Trunc_fuse_flush_writepages ==
    ASSUME WriteInv, TruncInv, WriteInv', NEW t \in Threads, fuse_flush_writepages(t)
    PROVE  TruncInv'
  BY TakesOne, EndsFlush

(* One request changes, and not where it starts.                           *)
LEMMA Trunc_dev_read ==
    ASSUME WriteInv, TruncInv, NEW q \in Reqs, dev_read(q)
    PROVE  TruncInv'
<1>1. /\ connected /\ pend # <<>> /\ q = Head(pend) /\ req' = [req EXCEPT ![q].st = "read"]
      /\ UNCHANGED <<th, isize, connected, queued, plock, dirty, pinned, fclock, ssize>>
  BY DEF dev_read, inodeVars, pageVars, dataVars, listVars, srvVars
<1>2. req[q].st = "pending"
  <2>1. pend \in Seq(Reqs) /\ \A i \in 1 .. Len(pend) : req[pend[i]].st = "pending"
    BY <1>1 DEF WriteInv, PendInv
  <2>2. Len(pend) \in Nat \ {0} /\ q = pend[1]
    BY <1>1, <2>1, EmptySeq, HeadTailProperties
  <2> QED
    BY <2>1, <2>2
<1>3. \A y \in Reqs : /\ req'[y].idx = req[y].idx /\ req'[y].size = req[y].size
                      /\ y # q => req'[y].st = req[y].st
  BY <1>1 DEF WriteInv, TypeOK, Request
<1>4. \A y \in Sent' : y \in Sent /\ req'[y].idx = req[y].idx /\ req'[y].size = req[y].size
  BY <1>2, <1>3 DEF Sent
<1> QED
  BY <1>1, <1>3, <1>4, ServedTruncates

LEMMA Trunc_dev_copy ==
    ASSUME WriteInv, TruncInv, NEW q \in Reqs, dev_copy(q)
    PROVE  TruncInv'
<1>1. PICK w : req' = [req EXCEPT ![q].st = "copied", ![q].wire = w]
  BY DEF dev_copy
<1>2. /\ req[q].st = "read"
      /\ UNCHANGED <<th, isize, connected, queued, plock, dirty, pinned, fclock, ssize>>
  BY DEF dev_copy, inodeVars, pageVars, dataVars, listVars, srvVars
<1>3. \A y \in Reqs : /\ req'[y].idx = req[y].idx /\ req'[y].size = req[y].size
                      /\ y # q => req'[y].st = req[y].st
  BY <1>1 DEF WriteInv, TypeOK, Request
<1>4. \A y \in Sent' : y \in Sent /\ req'[y].idx = req[y].idx /\ req'[y].size = req[y].size
  BY <1>2, <1>3 DEF Sent
<1> QED
  BY <1>2, <1>3, <1>4, ServedTruncates

(* The daemon has written what it was sent: no truncate is under way.      *)
LEMMA Trunc_dev_reply ==
    ASSUME WriteInv, TruncInv, NEW q \in Reqs, dev_reply(q)
    PROVE  TruncInv'
<1>1. /\ req[q].st = "copied" /\ ssize' = Max({ssize, req[q].idx + req[q].size})
      /\ req' = [req EXCEPT ![q].st = "ending", ![q].wire = <<>>]
      /\ UNCHANGED <<th, isize, connected, queued, plock, dirty, pinned, fclock>>
  BY DEF dev_reply, inodeVars, pageVars, dataVars, listVars
<1>2. \A y \in Reqs : /\ req'[y].idx = req[y].idx /\ req'[y].size = req[y].size
                      /\ y # q => req'[y].st = req[y].st
  BY <1>1 DEF WriteInv, TypeOK, Request
<1>3. q \in Sent
  BY <1>1 DEF Sent
<1>4. \A y \in Sent' : y \in Sent /\ req'[y].idx = req[y].idx /\ req'[y].size = req[y].size
  BY <1>2, <1>3 DEF Sent
<1>5. \A t \in Threads : ~InSection(t)
  BY <1>3, NoneSent
<1>6. ssize' \in Nat /\ ssize' <= isize
  <2>1. PICK a \in Nat, b \in Nat : a = ssize /\ b = req[q].idx + req[q].size
    <3>1. req[q].idx \in Nat /\ req[q].size \in Nat
      BY RequestTypes
    <3>2. ssize \in Nat
      BY DEF TruncInv, DoneInv
    <3> QED
      BY <3>1, <3>2
  <2>2. a <= isize /\ b <= isize
    BY <1>3, <1>5, <2>1 DEF TruncInv, SentInv, TruncateHolds, At, InSection
  <2>3. Max({a, b}) \in {a, b}
    <3>1. CASE a <= b
      <4>1. Max({a, b}) = b
        BY <3>1 DEF Max
      <4> QED
        BY <4>1
    <3>2. CASE b < a
      <4>1. Max({a, b}) = a
        BY <3>2 DEF Max
      <4> QED
        BY <4>1
    <3> QED
      BY <3>1, <3>2
  <2> QED
    BY <1>1, <2>1, <2>2, <2>3
<1> QED
  BY <1>1, <1>2, <1>4, <1>5, <1>6, ServedTruncates

LEMMA Trunc_dev_error ==
    ASSUME WriteInv, TruncInv, NEW q \in Reqs, dev_error(q)
    PROVE  TruncInv'
<1>1. /\ req[q].st \in {"read", "copied", "pending"}
      /\ req' = [req EXCEPT ![q].st = "ending", ![q].wire = <<>>]
      /\ UNCHANGED <<th, isize, connected, queued, plock, dirty, pinned, fclock, ssize>>
  BY DEF dev_error, listVars, srvVars
<1>2. \A y \in Reqs : /\ req'[y].idx = req[y].idx /\ req'[y].size = req[y].size
                      /\ y # q => req'[y].st = req[y].st
  BY <1>1 DEF WriteInv, TypeOK, Request
<1>3. \A y \in Sent' : y \in Sent /\ req'[y].idx = req[y].idx /\ req'[y].size = req[y].size
  BY <1>1, <1>2 DEF Sent
<1> QED
  BY <1>1, <1>2, <1>3, ServedTruncates

(* A secondary request is cropped to where its primary one ended.          *)
LEMMA Trunc_writepage_end_next ==
    ASSUME WriteInv, TruncInv, WriteInv', NEW q \in Reqs, writepage_end_next(q)
    PROVE  TruncInv'
<1>1. /\ req[q].st = "ending" /\ FcLock(q) /\ req[q].chain # <<>>
      /\ UNCHANGED <<th, isize, connected, queued, plock, dirty, pinned, ssize>>
  BY DEF writepage_end_next, inodeVars, pageVars, dataVars, srvVars
<1>2. /\ req[q] \in Request /\ req[q].chain \in Seq(Reqs)
      /\ req[q].idx \in Nat /\ req[q].size \in Nat
  BY RequestTypes
<1>3. PICK c \in Seq(Reqs) : c = req[q].chain /\ c # <<>>
  BY <1>1, <1>2
<1>4. /\ Head(c) \in Reqs /\ Tail(c) \in Seq(Reqs) /\ Len(c) \in Nat \ {0} /\ Head(c) = c[1]
  BY <1>3, EmptySeq, HeadTailProperties
<1>5. PICK next \in Reqs, tail \in Seq(Reqs) : next = Head(c) /\ tail = Tail(c)
  BY <1>4
<1>6. req[next].st = "chained"
  <2>1. 1 \in 1 .. Len(req[q].chain) /\ next = req[q].chain[1]
    BY <1>3, <1>4, <1>5
  <2> QED
    BY <2>1 DEF WriteInv, ChainInv
<1> DEFINE x == [req[q] EXCEPT !.chain = tail]
           r == [req EXCEPT ![q] = x]
<1>7. /\ x \in Request /\ x.st = req[q].st /\ x.idx = req[q].idx /\ x.size = req[q].size
  BY <1>2 DEF Request
<1>8. fuse_send_writepage(r, writepages \cup {next}, next, req[q].idx + req[q].size, q)
  <2>1. r = [req EXCEPT ![q].chain = Tail(@)]
    BY <1>3, <1>5 DEF WriteInv, TypeOK
  <2>2. next = Head(req[q].chain)
    BY <1>3, <1>5
  <2> QED
    BY <2>1, <2>2 DEF writepage_end_next
<1> HIDE DEF x
<1>9. /\ r \in [Reqs -> Request] /\ r[q] = x /\ \A y \in Reqs \ {q} : r[y] = req[y]
  BY <1>7 DEF WriteInv, TypeOK
<1> HIDE DEF r
<1>10. \A y \in Reqs : r[y].st = req[y].st /\ r[y].idx = req[y].idx /\ r[y].size = req[y].size
  BY <1>7, <1>9
<1>11. PICK size \in Nat : size = req[q].idx + req[q].size
  BY <1>2
<1>12. PICK w : w = writepages \cup {next}
  OBVIOUS
<1>13. fuse_send_writepage(r, w, next, size, q)
  BY <1>8, <1>11, <1>12
<1>14. /\ \A y \in Reqs \ {next} : /\ req'[y].idx = req[y].idx /\ req'[y].size = req[y].size
                                   /\ req'[y].st = req[y].st
       /\ \/ req'[next].idx + req'[next].size <= size /\ fclock' = q
          \/ req'[next].st = "free" /\ fclock' = None
  BY <1>9, <1>10, <1>13, Cropped
<1>15. size <= isize
  BY <1>1, <1>11 DEF TruncInv, SentInv, Sent
<1>16. \A y \in Sent' : \/ y \in Sent /\ req'[y].idx = req[y].idx /\ req'[y].size = req[y].size
                        \/ req'[y].idx + req'[y].size <= isize
  <2>1. req'[next].st = "free" \/ req'[next].idx + req'[next].size <= isize
    <3>1. req'[next].idx \in Nat /\ req'[next].size \in Nat /\ isize \in Nat
      <4>1. TypeOK' /\ isize \in Nat
        BY DEF WriteInv, TypeOK
      <4>2. req' \in [Reqs -> Request']
        BY <4>1 DEF TypeOK
      <4>3. Request' = Request
        BY DEF Request, Status, Pages
      <4>4. req'[next] \in Request
        BY <4>2, <4>3
      <4> QED
        BY <4>1, <4>4 DEF Request, Pages
    <3> QED
      BY <1>11, <1>14, <1>15, <3>1
  <2> QED
    BY <1>14, <2>1 DEF Sent
<1>17. fclock \notin Threads
  BY <1>1, FuseWritebackAssumption DEF FcLock
<1>18. \A y \in Reqs : req[y].st \in {"new", "queued"} => req'[y].idx = req[y].idx
  BY <1>6, <1>14
<1> QED
  BY <1>1, <1>16, <1>17, <1>18, ServedTruncates
-----------------------------------------------------------------------------
LEMMA Trunc_writepage_end_count ==
    ASSUME WriteInv, TruncInv, NEW q \in Reqs, writepage_end_count(q)
    PROVE  TruncInv'
<1>1. /\ req[q].st = "ending" /\ FcLock(q)
      /\ req' = [req EXCEPT ![q].st = "finishing"]
      /\ UNCHANGED <<th, isize, connected, queued, plock, dirty, pinned, ssize>>
  BY DEF writepage_end_count, inodeVars, pageVars, dataVars, srvVars
<1>2. fclock \notin Threads
  BY <1>1, FuseWritebackAssumption DEF FcLock
<1>3. /\ \A y \in Reqs : req'[y].idx = req[y].idx /\ req'[y].size = req[y].size
      /\ \A y \in Reqs \ {q} : req'[y].st = req[y].st
      /\ req'[q].st = "finishing"
  BY <1>1 DEF WriteInv, TypeOK, Request
<1>4. \A y \in Sent' : y \in Sent /\ req'[y].idx = req[y].idx /\ req'[y].size = req[y].size
  BY <1>3 DEF Sent
<1> QED
  BY <1>1, <1>2, <1>3, <1>4, ServedTruncates

LEMMA Trunc_fuse_writepage_finish ==
    ASSUME WriteInv, TruncInv, NEW q \in Reqs, fuse_writepage_finish(q)
    PROVE  TruncInv'
<1>1. /\ req[q].st = "finishing"
      /\ req' = [req EXCEPT ![q] = FreeReq]
      /\ UNCHANGED <<th, isize, connected, queued, plock, dirty, pinned, ssize>>
  BY DEF fuse_writepage_finish, inodeVars, pageVars, dataVars, srvVars
<1>2. fclock \notin Threads
  BY <1>1, FuseWritebackAssumption DEF WriteInv, LockInv
<1>3. /\ \A y \in Reqs \ {q} : req'[y] = req[y]
      /\ req'[q].st = "free"
  BY <1>1 DEF WriteInv, TypeOK, FreeReq
<1>4. \A y \in Sent' : y \in Sent /\ req'[y].idx = req[y].idx /\ req'[y].size = req[y].size
  BY <1>3 DEF Sent
<1>5. \A y \in Reqs : req[y].st \in {"new", "queued"} => req'[y].idx = req[y].idx
  BY <1>1, <1>3
<1> QED
  BY <1>1, <1>2, <1>4, <1>5, ServedTruncates

(* A page that was pinned becomes dirty: it was in the file already.       *)
LEMMA Trunc_fuse_release_user_pages ==
    ASSUME WriteInv, TruncInv, NEW p \in Pages, fuse_release_user_pages(p)
    PROVE  TruncInv'
<1>1. /\ dirty' \cup pinned' \subseteq dirty \cup pinned
      /\ dirty' \subseteq Pages /\ pinned' \subseteq Pages
      /\ UNCHANGED <<th, req, queued, plock, fclock, isize, ssize, connected>>
  BY DEF fuse_release_user_pages, Store, TruncInv, LockedInv, reqVars, listVars, srvVars,
         inodeVars
<1>2. LockedInv /\ FileInv /\ RegsInv /\ CutInv /\ CropInv /\ SentInv /\ DoneInv /\ TruncateHolds
  BY DEF TruncInv
<1>3. LockedInv'
  BY <1>1, <1>2 DEF LockedInv, Holds
<1>4. FileInv'
  BY <1>1, <1>2 DEF FileInv, InFile, Holds, Releasing
<1>5. RegsInv' /\ CutInv'
  BY <1>1, <1>2 DEF RegsInv, CutInv, Releasing
<1>6. CropInv'
  BY <1>1, <1>2 DEF CropInv, Expected, Releasing, Laundering
<1>7. SentInv' /\ DoneInv' /\ TruncateHolds'
  BY <1>1, <1>2 DEF SentInv, Sent, DoneInv, TruncateHolds, At
<1> QED
  BY <1>3, <1>4, <1>5, <1>6, <1>7 DEF TruncInv

(* After an abort nothing is sent, so the size of a crop does not matter.  *)
LEMMA Trunc_abort_conn ==
    ASSUME WriteInv, TruncInv, abort_conn
    PROVE  TruncInv'
<1>1. /\ connected' = FALSE
      /\ UNCHANGED <<th, req, queued, plock, dirty, pinned, fclock, isize, ssize>>
  BY DEF abort_conn, pageVars, dataVars, reqVars, listVars, srvVars
<1>2. LockedInv /\ FileInv /\ RegsInv /\ CutInv /\ CropInv /\ SentInv /\ DoneInv /\ TruncateHolds
  BY DEF TruncInv
<1>3. LockedInv' /\ FileInv'
  BY <1>1, <1>2 DEF LockedInv, FileInv, InFile, Holds, Releasing
<1>4. RegsInv' /\ CutInv'
  BY <1>1, <1>2 DEF RegsInv, CutInv, Releasing
<1>5. CropInv'
  BY <1>1 DEF CropInv
<1>6. SentInv' /\ DoneInv' /\ TruncateHolds'
  BY <1>1, <1>2 DEF SentInv, Sent, DoneInv, TruncateHolds, At
<1> QED
  BY <1>3, <1>4, <1>5, <1>6 DEF TruncInv

LEMMA Trunc_stuttering == ASSUME TruncInv, UNCHANGED vars PROVE TruncInv'
<1>1. UNCHANGED <<connected, isize, fclock, req, queued, ssize, th, dirty, plock, pinned>>
  BY DEF vars, inodeVars, pageVars, dataVars, reqVars, listVars, srvVars
<1> QED
  BY <1>1, UnmovedKeeps

LEMMA TruncInit == Init => TruncInv
<1> SUFFICES ASSUME Init PROVE TruncInv
  OBVIOUS
<1>1. \A t \in Threads : th[t] = Idle
  BY DEF Init
<1>2. NumPages \in Nat /\ None \notin Threads
  BY FuseWritebackAssumption
<1>3. /\ Idle.pc = "idle" /\ Idle.op = "none" /\ Idle.pages = {}
      /\ ~Holds(Idle) /\ ~Releasing(Idle)
  BY DEF Idle, Holds, Releasing
<1>4. LockedInv
  BY <1>1, <1>3 DEF LockedInv, Init
<1>5. FileInv
  BY <1>1, <1>3 DEF FileInv, Init
<1>6. RegsInv
  BY <1>1, IdleRegs DEF RegsInv
<1>7. CutInv
  BY EmptySeq DEF CutInv, Init
<1>8. CropInv
  BY <1>1, <1>3 DEF CropInv
<1>9. SentInv
  BY DEF SentInv, Sent, Init, FreeReq
<1>10. DoneInv /\ TruncateHolds
  BY <1>1, <1>2, <1>3 DEF DoneInv, TruncateHolds, Init
<1> QED
  BY <1>4, <1>5, <1>6, <1>7, <1>8, <1>9, <1>10 DEF TruncInv

LEMMA TruncStarting ==
    ASSUME WriteInv, TruncInv, WriteInv', NEW t \in Threads, Start(t)
    PROVE  TruncInv'
<1>1. CASE flush_begin(t)
  BY <1>1, Trunc_flush_begin
<1>2. CASE fsync_begin(t)
  BY <1>2, Trunc_fsync_begin
<1>3. ASSUME NEW p \in Pages, reclaim_begin(t, p) PROVE TruncInv'
  BY <1>3, Trunc_reclaim_begin
<1>4. ASSUME NEW p \in Pages, write_begin(t, p) PROVE TruncInv'
  BY <1>4, Trunc_write_begin
<1>5. ASSUME NEW s \in Sizes, setattr_begin(t, s) PROVE TruncInv'
  BY <1>5, Trunc_setattr_begin
<1> QED BY <1>1, <1>2, <1>3, <1>4, <1>5 DEF Start

LEMMA TruncStepping ==
    ASSUME WriteInv, TruncInv, WriteInv', NEW t \in Threads, Step(t)
    PROVE  TruncInv'
<1>1. CASE fuse_flush_writepages(t)
  BY <1>1, Trunc_fuse_flush_writepages
<1>2. CASE write_cache_pages(t)
  BY <1>2, Trunc_write_cache_pages
<1>3. CASE fill_check(t)
  BY <1>3, Trunc_fill_check
<1>4. CASE fill_fails(t)
  BY <1>4, Trunc_fill_fails
<1>5. CASE fill_alloc(t)
  BY <1>5, Trunc_fill_alloc
<1>6. CASE fill_count(t)
  BY <1>6, Trunc_fill_count
<1>7. CASE fuse_writepage_in_flight(t)
  BY <1>7, Trunc_fuse_writepage_in_flight
<1>8. CASE inplace_copy(t)
  BY <1>8, Trunc_inplace_copy
<1>9. CASE fuse_writepages_send(t)
  BY <1>9, Trunc_fuse_writepages_send
<1>10. CASE writepages_last(t)
  BY <1>10, Trunc_writepages_last
<1>11. CASE flush_end(t)
  BY <1>11, Trunc_flush_end
<1>12. CASE fuse_writepage(t)
  BY <1>12, Trunc_fuse_writepage
<1>13. CASE writepage_fails(t)
  BY <1>13, Trunc_writepage_fails
<1>14. CASE fuse_writepage_locked(t)
  BY <1>14, Trunc_fuse_writepage_locked
<1>15. CASE reclaim_end(t)
  BY <1>15, Trunc_reclaim_end
<1>16. CASE fuse_wait_on_page_writeback(t)
  BY <1>16, Trunc_fuse_wait_on_page_writeback
<1>17. CASE fuse_set_nowrite(t)
  BY <1>17, Trunc_fuse_set_nowrite
<1>18. CASE set_nowrite_wait(t)
  BY <1>18, Trunc_set_nowrite_wait
<1>19. CASE fsync_wait(t)
  BY <1>19, Trunc_fsync_wait
<1>20. CASE fsync_release(t)
  BY <1>20, Trunc_fsync_release
<1>21. CASE fsync_check(t)
  BY <1>21, Trunc_fsync_check
<1>22. CASE fsync_end(t)
  BY <1>22, Trunc_fsync_end
<1>23. CASE write_lock(t)
  BY <1>23, Trunc_write_lock
<1>24. CASE fuse_write_end(t)
  BY <1>24, Trunc_fuse_write_end
<1>25. CASE mkwrite_end(t)
  BY <1>25, Trunc_mkwrite_end
<1>26. CASE setattr_request(t)
  BY <1>26, Trunc_setattr_request
<1>27. CASE setattr_apply(t)
  BY <1>27, Trunc_setattr_apply
<1>28. CASE truncate_pagecache(t)
  BY <1>28, Trunc_truncate_pagecache
<1>29. CASE invalidate_inode_pages2(t)
  BY <1>29, Trunc_invalidate_inode_pages2
<1>30. CASE fuse_launder_page(t)
  BY <1>30, Trunc_fuse_launder_page
<1>31. CASE laundered(t)
  BY <1>31, Trunc_laundered
<1>32. CASE setattr_end(t)
  BY <1>32, Trunc_setattr_end
<1> QED
  BY <1>1, <1>2, <1>3, <1>4, <1>5, <1>6, <1>7, <1>8, <1>9, <1>10, <1>11,
     <1>12, <1>13, <1>14, <1>15, <1>16, <1>17, <1>18, <1>19, <1>20, <1>21,
     <1>22, <1>23, <1>24, <1>25, <1>26, <1>27, <1>28, <1>29, <1>30, <1>31,
     <1>32 DEF Step

LEMMA TruncServing ==
    ASSUME WriteInv, TruncInv, WriteInv', NEW q \in Reqs, Serve(q)
    PROVE  TruncInv'
  BY Trunc_dev_read, Trunc_dev_copy, Trunc_dev_reply, Trunc_dev_error,
     Trunc_writepage_end_next, Trunc_writepage_end_count, Trunc_fuse_writepage_finish
     DEF Serve

(* A write never makes the daemon's file longer than the file is, or is    *)
(* about to be when a truncate that the daemon has done is applied:        *)
(* fuse_do_setattr keeps new writes off and waits for those in flight,     *)
(* __fuse_release_nowrite lets the queue go with the new size, and         *)
(* fuse_send_writepage crops or drops what that size has cut off.          *)
THEOREM TruncationHolds == Spec => []TruncateHolds
<1> DEFINE Inv == WriteInv /\ TruncInv
<1>1. Init => Inv
  BY WriteInit, TruncInit
<1>2. Inv /\ [Next]_vars => Inv'
  <2> SUFFICES ASSUME WriteInv, TruncInv, [Next]_vars PROVE WriteInv' /\ TruncInv'
    OBVIOUS
  <2>1. ASSUME NEW t \in Threads, Start(t) PROVE WriteInv' /\ TruncInv'
    BY <2>1, Starting, TruncStarting
  <2>2. ASSUME NEW t \in Threads, Step(t) PROVE WriteInv' /\ TruncInv'
    BY <2>2, Stepping, TruncStepping
  <2>3. ASSUME NEW q \in Reqs, Serve(q) PROVE WriteInv' /\ TruncInv'
    BY <2>3, Serving, TruncServing
  <2>4. ASSUME NEW p \in Pages, fuse_release_user_pages(p) PROVE WriteInv' /\ TruncInv'
    BY <2>4, By_fuse_release_user_pages, Trunc_fuse_release_user_pages
  <2>5. CASE abort_conn
    BY <2>5, By_abort_conn, Trunc_abort_conn
  <2>6. CASE UNCHANGED vars
    BY <2>6, Stuttering, Trunc_stuttering
  <2> QED BY <2>1, <2>2, <2>3, <2>4, <2>5, <2>6 DEF Next
<1>3. Inv => TruncateHolds
  BY DEF TruncInv
<1> QED BY <1>1, <1>2, <1>3, PTL DEF Spec
=============================================================================
