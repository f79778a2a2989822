-------------------------- MODULE VpcManager_proofs --------------------------
(***************************************************************************)
(* Proofs about VpcManager, and about the vpc manager among the other      *)
(* controllers (Managers), for all sets of subnets, nodes, namespaces and  *)
(* specs.                                                                  *)
(***************************************************************************)
EXTENDS Managers, MCVpcManager, TLAPS

Reads == [spec : AllSpecs, del : BOOLEAN]
Srecs == [pc : {"idle", "lock", "wait", "remove"}, name : Subnets, in : Reads]
Cbs   == [pc : {"idle", "rlock", "walk", "send"}, arg : Nodes \union Spaces \union {""}]

-------------------------------------------------------------------------------
(* Facts about the operators the actions are built from.                   *)

LEMMA NoneTypes ==
    /\ NoSpec \in AllSpecs /\ NoSubnet \in SubObjects /\ NoSninfo \in Sninfos
    /\ SrecIdle \in Srecs /\ CbIdle \in Cbs
    /\ SrecIdle.pc = "idle" /\ CbIdle.pc = "idle"
<1>1. Every \in Selectors(Nodes) /\ Every \in Selectors(Spaces)
  BY DEF Every, Selectors
<1>2. NoSpec \in AllSpecs
  BY <1>1 DEF NoSpec, AllSpecs
<1>3. NoSubnet \in SubObjects /\ NoSninfo \in Sninfos
  BY <1>2 DEF NoSubnet, SubObjects, NoSninfo, Sninfos
<1>4. Read(NoSubnet) \in Reads
  BY <1>2, <1>3 DEF Read, Reads, SubObjects
<1>5. SrecIdle \in Srecs /\ SrecIdle.pc = "idle"
  BY <1>4, DefaultAssumption DEF SrecIdle, Srecs
<1>6. CbIdle \in Cbs /\ CbIdle.pc = "idle"
  BY DEF CbIdle, Cbs
<1>7. QED
  BY <1>2, <1>3, <1>5, <1>6

\* What Reconcile reads of an object.
LEMMA ReadType ==
    ASSUME NEW o \in SubObjects
    PROVE  /\ Read(o) \in Reads /\ Read(o).spec = o.spec /\ Read(o).del = o.del
           /\ o.spec \in AllSpecs /\ o.del \in BOOLEAN
BY DEF Read, Reads, SubObjects

\* Edits of one field of an object.
LEMMA EditType ==
    ASSUME NEW o \in SubObjects, NEW sp \in AllSpecs
    PROVE  /\ [o EXCEPT !.spec = sp] \in SubObjects
           /\ [o EXCEPT !.del = TRUE] \in SubObjects
           /\ [o EXCEPT !.held = FALSE] \in SubObjects
BY DEF SubObjects

LEMMA NewType ==
    ASSUME NEW sp \in AllSpecs, NEW h \in BOOLEAN
    PROVE  [ex |-> TRUE, spec |-> sp, del |-> FALSE, held |-> h] \in SubObjects
BY DEF SubObjects

LEMMA SrecMoves ==
    ASSUME NEW r \in Srecs, NEW q \in {"lock", "wait", "remove"}
    PROVE  /\ [r EXCEPT !.pc = q] \in Srecs /\ [r EXCEPT !.pc = q].pc = q
           /\ [r EXCEPT !.pc = q].name = r.name /\ [r EXCEPT !.pc = q].in = r.in
BY DEF Srecs

LEMMA SrecTakes ==
    ASSUME NEW s \in Subnets, NEW o \in Reads
    PROVE  LET r == [pc |-> "lock", name |-> s, in |-> o]
           IN  r \in Srecs /\ r.pc = "lock" /\ r.name = s /\ r.in = o
BY DEF Srecs

\* Reconcile's entry: what was selected stays selected, and what the spec
\* selects is added, unless the entry is flagged or the object is deleting.
LEMMA RecordedEntry ==
    ASSUME NEW sn \in Sninfos, NEW o \in Reads
    PROVE  LET new == SnRecorded(sn, o)
           IN  /\ new \in Sninfos
               /\ sn.Deleted => new.Deleted
               /\ ~o.del => new.Deleted \/ Covers(new, o.spec)
               /\ new.Node \subseteq sn.Node \union o.spec.nodes.names
               /\ new.Namespace \subseteq sn.Namespace \union o.spec.spaces.names
               /\ new.allnode => sn.allnode \/ ~o.spec.nodes.given
               /\ new.allnamespace => sn.allnamespace \/ ~o.spec.spaces.given
<1> USE DEF Sninfos
<1>1. /\ o.spec.nodes.names \subseteq Nodes /\ o.spec.spaces.names \subseteq Spaces
      /\ o.spec.nodes.given \in BOOLEAN /\ o.spec.spaces.given \in BOOLEAN
      /\ o.del \in BOOLEAN
  BY DEF Reads, AllSpecs, Selectors
<1>2. CASE sn.Deleted \/ o.del
  BY <1>2 DEF SnRecorded
<1>3. CASE ~(sn.Deleted \/ o.del)
  <2> DEFINE new == SnRecorded(sn, o)
  <2>1. new = [known |-> TRUE,
               Node |-> sn.Node \union o.spec.nodes.names,
               allnode |-> sn.allnode \/ ~o.spec.nodes.given,
               Namespace |-> sn.Namespace \union o.spec.spaces.names,
               allnamespace |-> sn.allnamespace \/ ~o.spec.spaces.given,
               Deleted |-> FALSE]
    BY <1>3 DEF SnRecorded
  <2>2. new \in Sninfos
    BY <1>1, <2>1
  <2>3. Covers(new, o.spec)
    <3>1. /\ new.known
          /\ new.allnode = (sn.allnode \/ ~o.spec.nodes.given)
          /\ new.allnamespace = (sn.allnamespace \/ ~o.spec.spaces.given)
          /\ o.spec.nodes.names \subseteq new.Node
          /\ o.spec.spaces.names \subseteq new.Namespace
      BY <2>1
    <3> HIDE DEF new
    <3>2. QED
      BY <1>1, <3>1, Zenon DEF Covers
  <2>4. QED
    BY <1>1, <1>3, <2>1, <2>2, <2>3
<1>4. QED
  BY <1>2, <1>3

\* The operations keep a mutex a mutex, whoever the threads are.
LEMMA MutexOps ==
    ASSUME NEW T, NEW m \in Mutexes(T), NEW t \in T
    PROVE  /\ Unlocked \in Mutexes(T)
           /\ Announce(m, t) \in Mutexes(T) /\ Lock(m, t) \in Mutexes(T)
           /\ Unlock(m) \in Mutexes(T) /\ RLock(m, t) \in Mutexes(T)
           /\ RUnlock(m, t) \in Mutexes(T)
BY DEF Mutexes, Unlocked, Announce, Lock, Unlock, RLock, RUnlock

\* Who reads while the operations of others go on: a writer does not come
\* among readers, and only a writer's Unlock changes them all.
Sound(m) == m.wr # Nobody => m.rd = {}

LEMMA MutexSound ==
    ASSUME NEW T, NEW m \in Mutexes(T), Sound(m), NEW t \in T, t # Nobody
    PROVE  /\ Sound(Unlocked) /\ Sound(Announce(m, t)) /\ Sound(Unlock(m))
           /\ Sound(RLock(m, t)) /\ Sound(RUnlock(m, t))
           /\ CanLock(m, t) => /\ Sound(Lock(m, t)) /\ Lock(m, t).wr # Nobody
                               /\ Sound(Unlock(Lock(m, t)))
           /\ Announce(m, t).rd = m.rd /\ Announce(m, t).wr = m.wr
           /\ RLock(m, t).wr = m.wr /\ RUnlock(m, t).wr = m.wr
           /\ m.rd \subseteq RLock(m, t).rd
           /\ RUnlock(m, t).rd = m.rd \ {t}
BY DEF Mutexes, Sound, Unlocked, Announce, Lock, Unlock, RLock, RUnlock, CanLock

-------------------------------------------------------------------------------
(* The invariant of the vpc manager.                                       *)

\* Who sends has the read lock, and no writer is among the readers.
MuInv ==
    /\ Sound(vpcMu)
    /\ srec.pc = "remove" => vpcMu.wr # Nobody
    /\ \A t \in Callers : cb[t].pc = "send" => t \in vpcMu.rd

\* The copy that the worker holds is that of the object, or the name is
\* queued again, or its last read failed.
CopyInv ==
    /\ ~up => srec.pc = "idle"
    /\ srec.pc = "remove" => subnats[srec.name].Deleted
    /\ LET s == srec.name
       IN /\ srec.pc \in {"lock", "wait"} /\ s \notin subQueue /\ s \notin lost
          /\ Live(apiSub[s]) /\ apiSub[s].spec.vpc
          => srec.in = Read(apiSub[s])

VpcInv == SettledIsCovered /\ MuInv /\ CopyInv

\* The obligation of SettledIsCovered for one subnet.
Settled(s) ==
    up /\ s \notin lost /\ ~InWork(s) /\ Live(apiSub[s]) /\ apiSub[s].spec.vpc
        => subnats[s].Deleted \/ Covers(subnats[s], apiSub[s].spec)

\* The parts of the invariant by name.
Parts == TypeOK /\ (\A s \in Subnets : Settled(s)) /\ MuInv /\ CopyInv

LEMMA PartsOfInv == VpcInv <=> Parts
BY DEF VpcInv, Parts, SettledIsCovered, Settled

LEMMA VpcInit == Init => Parts
<1> SUFFICES ASSUME Init PROVE Parts
  OBVIOUS
<1> USE NoneTypes DEF Init
<1>1. TypeOK
  <2>1. vpcMu \in Mutexes(Threads)
    BY DEF Mutexes, Unlocked
  <2>2. srec \in Srecs /\ cb \in [Callers -> Cbs]
    OBVIOUS
  <2>3. QED
    BY <2>1, <2>2 DEF TypeOK, Srecs, Cbs, Reads
<1>2. \A s \in Subnets : ~apiSub[s].ex
  BY DEF NoSubnet
<1>3. \A s \in Subnets : Settled(s)
  BY <1>2 DEF Settled, Live
<1>4. MuInv
  BY DEF MuInv, Sound, Unlocked
<1>5. CopyInv
  BY DEF CopyInv
<1>6. QED
  BY <1>1, <1>3, <1>4, <1>5 DEF Parts

\* Whatever object is stored: its name is queued, or nobody is there.
LEMMA StoreKeeps ==
    ASSUME Parts, NEW s \in Subnets, NEW o \in SubObjects, Store(s, o),
           starter' \in BOOLEAN,
           UNCHANGED <<subnats, vpcMu, srec, cb, known, up>>
    PROVE  Parts'
<1> USE DEF Parts, Store
<1>1. TypeOK'
  BY DEF TypeOK
<1>2. apiSub'[s] = o /\ \A r \in Subnets \ {s} : apiSub'[r] = apiSub[r]
  BY DEF TypeOK
<1>3. ASSUME NEW r \in Subnets PROVE Settled(r)'
  <2>1. CASE r = s
    BY <2>1 DEF Settled, InWork
  <2>2. CASE r # s
    BY <1>2, <2>2 DEF Settled, InWork
  <2>3. QED
    BY <2>1, <2>2
<1>4. MuInv'
  BY DEF MuInv
<1>5. CopyInv'
  <2>1. srec.name \in Subnets
    BY DEF TypeOK
  <2>2. CASE srec.name = s
    BY <2>2 DEF CopyInv
  <2>3. CASE srec.name # s
    BY <1>2, <2>1, <2>3 DEF CopyInv
  <2>4. QED
    BY <2>2, <2>3
<1>6. QED
  BY <1>1, <1>3, <1>4, <1>5

LEMMA DiesKeeps == ASSUME Parts, Dies PROVE Parts'
<1> USE NoneTypes DEF Parts, Dies
<1>1. TypeOK'
  <2>1. vpcMu' \in Mutexes(Threads)
    BY DEF Mutexes, Unlocked
  <2>2. srec' \in Srecs /\ cb' \in [Callers -> Cbs]
    OBVIOUS
  <2>3. QED
    BY <2>1, <2>2 DEF TypeOK, Srecs, Cbs, Reads
<1>2. \A s \in Subnets : Settled(s)'
  BY DEF Settled
<1>3. MuInv'
  BY DEF MuInv, Sound, Unlocked
<1>4. CopyInv'
  BY DEF CopyInv
<1>5. QED
  BY <1>1, <1>2, <1>3, <1>4

LEMMA GetKeeps ==
    ASSUME Parts, NEW s \in Subnets, SubnetGet(s) \/ SubnetGetError(s)
    PROVE  Parts'
<1> USE DEF Parts
<1>1. CASE SubnetGet(s) /\ apiSub[s].ex /\ apiSub[s].spec.vpc
  <2> USE <1>1 DEF SubnetGet
  <2>1. /\ srec' \in Srecs /\ srec'.pc = "lock" /\ srec'.name = s
        /\ srec'.in = Read(apiSub[s])
    BY ReadType, SrecTakes DEF TypeOK
  <2>2. TypeOK'
    BY <2>1 DEF TypeOK, Srecs, Reads
  <2>3. ASSUME NEW r \in Subnets PROVE Settled(r)'
    BY <2>1 DEF Settled, InWork
  <2>4. MuInv' /\ CopyInv'
    BY <2>1 DEF MuInv, CopyInv
  <2>5. QED
    BY <2>2, <2>3, <2>4
<1>2. CASE SubnetGet(s) /\ ~(apiSub[s].ex /\ apiSub[s].spec.vpc)
  <2> USE <1>2 DEF SubnetGet
  <2>1. TypeOK'
    BY DEF TypeOK
  <2>2. ASSUME NEW r \in Subnets PROVE Settled(r)'
    BY DEF Settled, InWork, Live
  <2>3. MuInv' /\ CopyInv'
    BY DEF MuInv, CopyInv
  <2>4. QED
    BY <2>1, <2>2, <2>3
<1>3. CASE SubnetGetError(s)
  <2> USE <1>3 DEF SubnetGetError
  <2>1. TypeOK'
    BY DEF TypeOK
  <2>2. ASSUME NEW r \in Subnets PROVE Settled(r)'
    BY DEF Settled, InWork
  <2>3. MuInv' /\ CopyInv'
    BY DEF MuInv, CopyInv
  <2>4. QED
    BY <2>1, <2>2, <2>3
<1>4. QED
  BY <1>1, <1>2, <1>3

LEMMA Named == "srec" \in Threads /\ "srec" # Nobody
               /\ \A t \in Callers : t \in Threads /\ t # Nobody
BY DEF Threads, Callers, Nobody

LEMMA LockKeeps == ASSUME Parts, SubnetLock PROVE Parts'
<1> USE DEF Parts, SubnetLock
<1>1. /\ srec' \in Srecs /\ srec'.pc = "wait" /\ srec'.name = srec.name
      /\ srec'.in = srec.in
  BY SrecMoves DEF TypeOK, Srecs, Reads
<1>2. vpcMu' \in Mutexes(Threads)
  BY MutexOps, Named DEF TypeOK
<1>3. TypeOK'
  BY <1>1, <1>2 DEF TypeOK, Srecs, Reads
<1>4. Sound(vpcMu') /\ vpcMu'.rd = vpcMu.rd /\ vpcMu'.wr = vpcMu.wr
  <2>1. vpcMu \in Mutexes(Threads) /\ Sound(vpcMu)
    BY DEF TypeOK, MuInv
  <2>2. /\ Sound(Announce(vpcMu, "srec")) /\ Announce(vpcMu, "srec").rd = vpcMu.rd
        /\ Announce(vpcMu, "srec").wr = vpcMu.wr
    BY <2>1, MutexSound, Named
  <2>3. QED
    BY <2>2
<1>5. MuInv' /\ CopyInv'
  BY <1>1, <1>4 DEF MuInv, CopyInv
<1>6. ASSUME NEW r \in Subnets PROVE Settled(r)'
  BY <1>1 DEF Settled, InWork
<1>7. QED
  BY <1>3, <1>5, <1>6

\* The entry is made with no reader about, so that nobody sends; the copy
\* that it is made from is the object's, or the name is not settled.
LEMMA RecordKeeps == ASSUME Parts, SubnetRecord PROVE Parts'
<1> USE DEF Parts, SubnetRecord
<1> DEFINE s == srec.name
           new == SnRecorded(subnats[s], srec.in)
<1>1. s \in Subnets /\ srec \in Srecs /\ srec.in \in Reads /\ subnats[s] \in Sninfos
  BY DEF TypeOK, Srecs, Reads
<1>2. /\ new \in Sninfos /\ (subnats[s].Deleted => new.Deleted)
      /\ (~srec.in.del => new.Deleted \/ Covers(new, srec.in.spec))
  BY <1>1, RecordedEntry
<1>3. /\ subnats' \in [Subnets -> Sninfos] /\ subnats'[s] = new
      /\ \A r \in Subnets \ {s} : subnats'[r] = subnats[r]
  BY <1>1, <1>2 DEF TypeOK
<1>4. vpcMu \in Mutexes(Threads) /\ Sound(vpcMu) /\ CanLock(vpcMu, "srec")
  BY DEF TypeOK, MuInv
<1>5. Lock(vpcMu, "srec") \in Mutexes(Threads)
  BY <1>4, MutexOps, Named
<1>6. Unlock(Lock(vpcMu, "srec")) \in Mutexes(Threads)
  BY <1>5, MutexOps, Named
<1>7. /\ Sound(Lock(vpcMu, "srec")) /\ Lock(vpcMu, "srec").wr # Nobody
      /\ Sound(Unlock(Lock(vpcMu, "srec")))
  BY <1>4, MutexSound, Named
<1>8. \A t \in Callers : cb[t].pc # "send"
  BY <1>4 DEF MuInv, CanLock
<1> HIDE DEF new
<1>9. CASE subnats[s].Deleted
  <2>1. srec' \in Srecs /\ srec'.pc = "remove" /\ srec'.name = s
    BY <1>1, <1>9, SrecMoves
  <2>2. vpcMu' = Lock(vpcMu, "srec")
    BY <1>9
  <2>3. TypeOK'
    BY <1>3, <1>5, <2>1, <2>2 DEF TypeOK, Srecs, Reads
  <2>4. MuInv'
    BY <1>7, <1>8, <2>2 DEF MuInv
  <2>5. CopyInv'
    BY <1>2, <1>3, <1>9, <2>1 DEF CopyInv
  <2>6. ASSUME NEW r \in Subnets PROVE Settled(r)'
    BY <1>3, <2>1 DEF Settled, InWork
  <2>7. QED
    BY <2>3, <2>4, <2>5, <2>6
<1>10. CASE ~subnats[s].Deleted
  <2>1. srec' = SrecIdle /\ vpcMu' = Unlock(Lock(vpcMu, "srec"))
    BY <1>10
  <2>2. srec' \in Srecs /\ srec'.pc = "idle"
    BY <2>1, NoneTypes
  <2>3. TypeOK'
    BY <1>3, <1>6, <2>1, <2>2 DEF TypeOK, Srecs, Reads
  <2>4. MuInv'
    BY <1>7, <1>8, <2>1, <2>2 DEF MuInv
  <2>5. CopyInv'
    BY <2>2 DEF CopyInv
  <2>6. ASSUME NEW r \in Subnets PROVE Settled(r)'
    <3>1. CASE r # s
      BY <1>3, <3>1 DEF Settled, InWork
    <3>2. CASE r = s
      <4>1. SUFFICES ASSUME r \notin lost, r \notin subQueue, Live(apiSub[r]),
                            apiSub[r].spec.vpc
                     PROVE  new.Deleted \/ Covers(new, apiSub[r].spec)
        BY <1>3, <3>2 DEF Settled, InWork
      <4>2. srec.in = Read(apiSub[r])
        BY <3>2, <4>1 DEF CopyInv
      <4>3. apiSub[r] \in SubObjects
        BY DEF TypeOK
      <4>4. srec.in.spec = apiSub[r].spec /\ ~srec.in.del
        BY <4>1, <4>2, <4>3, ReadType DEF Live
      <4>5. QED
        BY <1>2, <4>4
    <3>3. QED
      BY <3>1, <3>2
  <2>7. QED
    BY <2>3, <2>4, <2>5, <2>6
<1>11. QED
  BY <1>9, <1>10

LEMMA RemoveKeeps == ASSUME Parts, NEW ok \in BOOLEAN, SubnetRemove(ok) PROVE Parts'
<1> USE DEF Parts, SubnetRemove
<1>1. srec' \in Srecs /\ srec'.pc = "idle" /\ srec.name \in Subnets
  BY NoneTypes DEF TypeOK
<1>2. vpcMu \in Mutexes(Threads) /\ Sound(vpcMu) /\ vpcMu.rd = {}
  BY DEF TypeOK, MuInv, Sound
<1>3. vpcMu' \in Mutexes(Threads)
  BY <1>2, MutexOps, Named
<1>4. Sound(vpcMu')
  BY <1>2, MutexSound, Named
<1>5. TypeOK'
  BY <1>1, <1>3 DEF TypeOK, Srecs, Reads
<1>6. MuInv' /\ CopyInv'
  BY <1>1, <1>2, <1>4 DEF MuInv, CopyInv
<1>7. ASSUME NEW r \in Subnets PROVE Settled(r)'
  BY <1>1 DEF Settled, InWork, CopyInv
<1>8. QED
  BY <1>5, <1>6, <1>7

\* Steps that touch only the callers of the callback and the set of nodes.
LEMMA OthersKeep ==
    ASSUME Parts, cb' \in [Callers -> Cbs], known' \in SUBSET Nodes,
           vpcMu' \in Mutexes(Threads), Sound(vpcMu'), vpcMu'.wr = vpcMu.wr,
           \A t \in Callers : cb'[t].pc = "send" => t \in vpcMu'.rd,
           UNCHANGED <<apiSub, subQueue, subnats, srec, lost, starter, up>>
    PROVE  Parts'
<1> USE DEF Parts
<1>1. TypeOK'
  BY DEF TypeOK, Cbs
<1>2. MuInv' /\ CopyInv'
  BY DEF MuInv, CopyInv
<1>3. ASSUME NEW r \in Subnets PROVE Settled(r)'
  BY DEF Settled, InWork
<1>4. QED
  BY <1>1, <1>2, <1>3

LEMMA CbMoves ==
    ASSUME NEW c \in [Callers -> Cbs], NEW t \in Callers, NEW q \in {"walk", "send"}
    PROVE  /\ [c EXCEPT ![t].pc = q] \in [Callers -> Cbs]
           /\ [c EXCEPT ![t].pc = q][t].pc = q
           /\ [c EXCEPT ![t].pc = q][t].arg = c[t].arg
BY DEF Cbs

LEMMA CbCalled ==
    ASSUME NEW c \in [Callers -> Cbs], NEW t \in Callers, NEW x \in Nodes \union Spaces
    PROVE  /\ [c EXCEPT ![t] = [pc |-> "rlock", arg |-> x]] \in [Callers -> Cbs]
           /\ [c EXCEPT ![t] = [pc |-> "rlock", arg |-> x]][t].pc = "rlock"
BY DEF Cbs

LEMMA CallKeeps ==
    ASSUME Parts, NEW t \in Callers, NEW x \in Nodes \union Spaces, Call(t, x)
    PROVE  Parts'
<1> USE DEF Call
<1>1. /\ cb \in [Callers -> Cbs] /\ known \in SUBSET Nodes
      /\ vpcMu \in Mutexes(Threads) /\ MuInv
  BY DEF Parts, TypeOK, Cbs
<1>2. cb' \in [Callers -> Cbs] /\ cb'[t].pc = "rlock"
  BY <1>1, CbCalled
<1>3. \A u \in Callers \ {t} : cb'[u] = cb[u]
  BY <1>1
<1>4. \A u \in Callers : cb'[u].pc = "send" => u \in vpcMu'.rd
  BY <1>1, <1>2, <1>3 DEF MuInv
<1>5. QED
  BY <1>1, <1>2, <1>4, OthersKeep DEF MuInv

LEMMA KnownKeeps ==
    ASSUME Parts, NEW n \in Nodes, NodeKnown(n)
    PROVE  Parts'
<1> USE DEF NodeKnown
<1>1. /\ cb \in [Callers -> Cbs] /\ known' \in SUBSET Nodes
      /\ vpcMu \in Mutexes(Threads) /\ MuInv
  BY DEF Parts, TypeOK, Cbs
<1>2. QED
  BY <1>1, OthersKeep DEF MuInv

LEMMA CallbackKeeps ==
    ASSUME Parts, NEW t \in Callers, Callback(t)
    PROVE  Parts'
<1>1. /\ cb \in [Callers -> Cbs] /\ known \in SUBSET Nodes
      /\ vpcMu \in Mutexes(Threads) /\ MuInv /\ Sound(vpcMu)
      /\ \A u \in Callers : cb[u].pc = "send" => u \in vpcMu.rd
  BY DEF Parts, TypeOK, Cbs, MuInv
<1>2. CASE CallbackRLock(t)
  <2> USE <1>2 DEF CallbackRLock
  <2>1. cb' \in [Callers -> Cbs] /\ cb'[t].pc = "walk"
    BY <1>1, CbMoves
  <2>2. \A u \in Callers \ {t} : cb'[u] = cb[u]
    BY <1>1
  <2>3. RLock(vpcMu, t) \in Mutexes(Threads)
    BY <1>1, MutexOps, Named
  <2>4. /\ Sound(RLock(vpcMu, t)) /\ RLock(vpcMu, t).wr = vpcMu.wr
        /\ vpcMu.rd \subseteq RLock(vpcMu, t).rd
    BY <1>1, MutexSound, Named
  <2>5. \A u \in Callers : cb'[u].pc = "send" => u \in vpcMu'.rd
    BY <1>1, <2>1, <2>2, <2>4
  <2>6. QED
    BY <1>1, <2>1, <2>3, <2>4, <2>5, OthersKeep
<1>3. CASE CallbackReturn(t)
  <2> USE <1>3 DEF CallbackReturn
  <2>1. cb' \in [Callers -> Cbs] /\ cb'[t].pc = "idle"
    BY <1>1, NoneTypes
  <2>2. \A u \in Callers \ {t} : cb'[u] = cb[u]
    BY <1>1
  <2>3. RUnlock(vpcMu, t) \in Mutexes(Threads)
    BY <1>1, MutexOps, Named
  <2>4. /\ Sound(RUnlock(vpcMu, t)) /\ RUnlock(vpcMu, t).wr = vpcMu.wr
        /\ RUnlock(vpcMu, t).rd = vpcMu.rd \ {t}
    BY <1>1, MutexSound, Named
  <2>5. \A u \in Callers : cb'[u].pc = "send" => u \in vpcMu'.rd
    BY <1>1, <2>1, <2>2, <2>4
  <2>6. QED
    BY <1>1, <2>1, <2>3, <2>4, <2>5, OthersKeep
<1>4. CASE CallbackSend(t)
  <2> USE <1>4 DEF CallbackSend
  <2>1. cb' \in [Callers -> Cbs]
    BY <1>1, CbMoves
  <2>2. \A u \in Callers \ {t} : cb'[u] = cb[u]
    BY <1>1
  <2>3. \A u \in Callers : cb'[u].pc = "send" => u \in vpcMu'.rd
    BY <1>1, <2>2
  <2>4. QED
    BY <1>1, <2>1, <2>3, OthersKeep
<1>5. CASE CallbackPanic(t)
  BY <1>5, DiesKeeps DEF CallbackPanic
<1>6. QED
  BY <1>2, <1>3, <1>4, <1>5 DEF Callback

LEMMA RestartKeeps == ASSUME Parts, Restart PROVE Parts'
<1> USE DEF Parts, Restart
<1>1. TypeOK'
  BY DEF TypeOK
<1>2. \A r \in Subnets : Settled(r)'
  BY DEF Settled, InWork, Live
<1>3. MuInv' /\ CopyInv'
  BY DEF MuInv, CopyInv
<1>4. QED
  BY <1>1, <1>2, <1>3

LEMMA UsersKeep == ASSUME Parts, Users PROVE Parts'
<1>1. PICK s \in Subnets :
        \/ \E spec \in Specs : \/ \E held \in BOOLEAN : CreateSubnet(s, spec, held)
                               \/ UpdateSubnet(s, spec)
        \/ DeleteSubnet(s)
        \/ ReleaseSubnet(s)
  BY DEF Users
<1>2. apiSub[s] \in SubObjects /\ starter \in BOOLEAN
  BY DEF Parts, TypeOK
<1>3. ASSUME NEW spec \in Specs, NEW held \in BOOLEAN, CreateSubnet(s, spec, held)
      PROVE  Parts'
  BY <1>2, <1>3, NewType, StoreKeeps, SpecsAssumption DEF CreateSubnet
<1>4. ASSUME NEW spec \in Specs, UpdateSubnet(s, spec) PROVE Parts'
  BY <1>2, <1>4, EditType, StoreKeeps, SpecsAssumption DEF UpdateSubnet
<1>5. /\ [apiSub[s] EXCEPT !.del = TRUE] \in SubObjects
      /\ [apiSub[s] EXCEPT !.held = FALSE] \in SubObjects
      /\ NoSubnet \in SubObjects
  BY <1>2, EditType, NoneTypes
<1>6. CASE DeleteSubnet(s)
  BY <1>2, <1>5, <1>6, StoreKeeps DEF DeleteSubnet
<1>7. CASE ReleaseSubnet(s)
  BY <1>2, <1>5, <1>7, StoreKeeps DEF ReleaseSubnet
<1>8. QED
  BY <1>1, <1>3, <1>4, <1>6, <1>7

LEMMA StartKeeps == ASSUME Parts, StartDefault PROVE Parts'
<1> USE DEF StartDefault
<1>1. CASE apiSub[Default].ex
  <2>1. TypeOK'
    BY <1>1 DEF Parts, TypeOK
  <2>2. MuInv' /\ CopyInv' /\ \A r \in Subnets : Settled(r)'
    BY <1>1 DEF Parts, MuInv, CopyInv, Settled, InWork
  <2>3. QED
    BY <2>1, <2>2 DEF Parts
<1>2. CASE ~apiSub[Default].ex
  BY <1>2, NoneTypes, NewType, StoreKeeps, DefaultAssumption
<1>3. QED
  BY <1>1, <1>2

LEMMA StutterKeeps == ASSUME Parts, UNCHANGED vars PROVE Parts'
BY DEF Parts, TypeOK, MuInv, CopyInv, Settled, InWork, vars

LEMMA StepKeeps == ASSUME Parts, [Next]_vars PROVE Parts'
<1>1. CASE Reconcile
  BY <1>1, GetKeeps, LockKeeps, RecordKeeps, RemoveKeeps DEF Reconcile
<1>2. CASE \E n \in Nodes : NodeKnown(n)
  BY <1>2, KnownKeeps
<1>3. CASE NodeEvent \/ NamespaceEvent
  <2>1. known \in SUBSET Nodes /\ "hnd" \in Callers /\ "nsw" \in Callers
    BY DEF Parts, TypeOK, Callers
  <2>2. QED
    BY <1>3, <2>1, CallKeeps DEF NodeEvent, NamespaceEvent
<1>4. CASE StartFails
  BY <1>4, DiesKeeps DEF StartFails
<1>5. QED
  BY <1>1, <1>2, <1>3, <1>4, UsersKeep, StartKeeps, CallbackKeeps, RestartKeeps,
     StutterKeeps DEF Next

\* The vpc manager keeps its invariant: no version of a spec is lost on the
\* way through Reconcile, a copy that the worker acts on late is the current
\* one or will be replaced, and a callback in its send has the read lock.
THEOREM VpcCorrect == Spec => []VpcInv
<1>1. Spec => []Parts
  <2>1. Init => Parts
    BY VpcInit
  <2>2. Parts /\ [Next]_vars => Parts'
    BY StepKeeps
  <2>3. QED
    BY <2>1, <2>2, PTL DEF Spec
<1>2. QED
  BY <1>1, PartsOfInv, PTL

\* A complete Subnet that nobody is about to reconcile is in the map with
\* all that its spec selects (Reconcile, vpc.go), unless its name is flagged
\* or its last read failed.
THEOREM NoVersionLost == Spec => []SettledIsCovered
BY VpcCorrect, PTL DEF VpcInv

\* A callback in its send to the nil channel (vpc.go:261-277) freezes the
\* map of subnets for as long as the process lives: no Reconcile changes it.
StuckFreezesMap == [][Blocked /\ up' => subnats' = subnats]_vars

\* StuckFreezesMap holds of every behaviour of the vpc manager.
THEOREM StuckCallbackFreezes == Spec => StuckFreezesMap
<1>1. ASSUME VpcInv, [Next]_vars, Blocked, up' PROVE subnats' = subnats
  <2>1. vpcMu.rd # {}
    BY <1>1 DEF VpcInv, MuInv, Blocked
  <2>2. ~SubnetRecord
    BY <2>1 DEF SubnetRecord, CanLock
  <2>3. ~Dies
    BY <1>1 DEF Dies
  <2>4. QED
    BY <1>1, <2>2, <2>3
    DEF Next, Users, CreateSubnet, UpdateSubnet, DeleteSubnet, ReleaseSubnet,
        StartDefault, StartFails, Reconcile, SubnetGet, SubnetGetError, SubnetLock,
        SubnetRemove, NodeKnown, NodeEvent, NamespaceEvent, Call, Callback,
        CallbackRLock, CallbackReturn, CallbackSend, CallbackPanic, Restart, vars
<1>2. VpcInv /\ [Next]_vars => [Blocked /\ up' => subnats' = subnats]_vars
  BY <1>1
<1>3. QED
  BY <1>2, VpcCorrect, PTL DEF Spec, StuckFreezesMap

-------------------------------------------------------------------------------
(* Where the selectors of an entry come from.                              *)

\* What SelectsOnlyAsked says of one entry, with A the specs that were asked.
Justified(sn, A) ==
    LET versions == {v \in A : v.vpc}
    IN /\ sn.Node \subseteq UNION {v.nodes.names : v \in versions}
       /\ sn.Namespace \subseteq UNION {v.spaces.names : v \in versions}
       /\ sn.allnode => \E v \in versions : ~v.nodes.given
       /\ sn.allnamespace => \E v \in versions : ~v.spaces.given

HistInv ==
    /\ \A s \in Subnets : ~up => subnats[s] = NoSninfo
    /\ \A s \in Subnets : up => Current(s) \subseteq asked[s]
    /\ srec.pc # "idle" => srec.in.spec \in asked[srec.name] /\ srec.in.spec.vpc
    /\ \A s \in Subnets : Justified(subnats[s], asked[s])

LEMMA JustifiedMore ==
    ASSUME NEW sn, NEW A, NEW B, A \subseteq B, Justified(sn, A)
    PROVE  Justified(sn, B)
BY DEF Justified

LEMMA JustifiedNone == \A A : Justified(NoSninfo, A)
BY DEF Justified, NoSninfo

\* Reconcile adds to an entry only what the version it read selects.
LEMMA JustifiedRecord ==
    ASSUME NEW sn \in Sninfos, NEW o \in Reads, NEW A, Justified(sn, A),
           o.spec \in A, o.spec.vpc
    PROVE  Justified(SnRecorded(sn, o), A)
<1> DEFINE new == SnRecorded(sn, o)
           versions == {v \in A : v.vpc}
<1>1. /\ new.Node \subseteq sn.Node \union o.spec.nodes.names
      /\ new.Namespace \subseteq sn.Namespace \union o.spec.spaces.names
      /\ new.allnode => sn.allnode \/ ~o.spec.nodes.given
      /\ new.allnamespace => sn.allnamespace \/ ~o.spec.spaces.given
  BY RecordedEntry
<1>2. o.spec \in versions
  OBVIOUS
<1>3. /\ sn.Node \subseteq UNION {v.nodes.names : v \in versions}
      /\ sn.Namespace \subseteq UNION {v.spaces.names : v \in versions}
      /\ sn.allnode => \E v \in versions : ~v.nodes.given
      /\ sn.allnamespace => \E v \in versions : ~v.spaces.given
  BY DEF Justified
<1> HIDE DEF new, versions
<1>4. /\ new.Node \subseteq UNION {v.nodes.names : v \in versions}
      /\ new.Namespace \subseteq UNION {v.spaces.names : v \in versions}
  BY <1>1, <1>2, <1>3
<1>5. /\ new.allnode => \E v \in versions : ~v.nodes.given
      /\ new.allnamespace => \E v \in versions : ~v.spaces.given
  BY <1>1, <1>2, <1>3, Zenon
<1>6. QED
  BY <1>4, <1>5 DEF Justified, new, versions

\* What a step does to the worker and to the map.
LEMMA StepEffects ==
    ASSUME Parts, Next
    PROVE  \/ Dies
           \/ SubnetRecord
           \/ \E s \in Subnets : SubnetGet(s)
           \/ Restart
           \/ /\ UNCHANGED <<subnats, up>>
              /\ \/ srec' = srec
                 \/ srec'.pc = "idle"
                 \/ srec.pc # "idle" /\ srec'.in = srec.in /\ srec'.name = srec.name
<1>1. CASE SubnetLock
  BY <1>1, SrecMoves DEF SubnetLock, Parts, TypeOK, Srecs, Reads
<1>2. CASE \E ok \in BOOLEAN : SubnetRemove(ok)
  BY <1>2, NoneTypes DEF SubnetRemove
<1>3. CASE \E s \in Subnets : SubnetGetError(s)
  BY <1>3 DEF SubnetGetError
<1>4. CASE Users \/ StartDefault \/ StartFails
  BY <1>4 DEF Users, CreateSubnet, UpdateSubnet, DeleteSubnet, ReleaseSubnet,
              StartDefault, StartFails
<1>5. CASE NodeEvent \/ NamespaceEvent \/ \E n \in Nodes : NodeKnown(n)
  BY <1>5 DEF NodeEvent, NamespaceEvent, Call, NodeKnown
<1>6. CASE \E t \in Callers : Callback(t)
  BY <1>6 DEF Callback, CallbackRLock, CallbackReturn, CallbackSend, CallbackPanic
<1>7. QED
  BY <1>1, <1>2, <1>3, <1>4, <1>5, <1>6 DEF Next, Reconcile

LEMMA HistoryKeeps == ASSUME Parts, HistInv, HistoryNext PROVE HistInv'
<1>1. /\ Next
      /\ asked' = [s \in Subnets |-> IF ~up' THEN {} ELSE asked[s] \union Current(s)']
  BY DEF HistoryNext
<1>2. \A s \in Subnets : up' => asked[s] \subseteq asked'[s] /\ Current(s)' \subseteq asked'[s]
  BY <1>1
<1>3. srec.name \in Subnets /\ up \in BOOLEAN /\ srec.in \in Reads
      /\ subnats \in [Subnets -> Sninfos] /\ (~up => srec.pc = "idle")
  BY DEF Parts, TypeOK, Reads, CopyInv
<1>4. CASE Dies
  BY <1>4, NoneTypes, JustifiedNone DEF Dies, HistInv
<1>5. CASE SubnetRecord
  <2> DEFINE s == srec.name
  <2>1. up /\ up' /\ srec.pc = "wait"
    BY <1>5 DEF SubnetRecord
  <2>2. srec'.pc = "idle" \/ (srec'.in = srec.in /\ srec'.name = srec.name)
    <3>1. srec' = SrecIdle \/ srec' = [srec EXCEPT !.pc = "remove"]
      BY <1>5 DEF SubnetRecord
    <3>2. srec \in Srecs
      BY DEF Parts, TypeOK, Srecs, Reads
    <3>3. CASE srec' = SrecIdle
      BY <3>3, NoneTypes
    <3>4. CASE srec' = [srec EXCEPT !.pc = "remove"]
      BY <3>2, <3>4 DEF Srecs
    <3>5. QED
      BY <3>1, <3>3, <3>4
  <2>3. srec.in.spec \in asked[s] /\ srec.in.spec.vpc
    BY <2>1 DEF HistInv
  <2>4. Justified(SnRecorded(subnats[s], srec.in), asked[s])
    BY <1>3, <2>3, JustifiedRecord DEF HistInv
  <2>5. \A r \in Subnets : Justified(subnats'[r], asked[r])
    BY <1>3, <1>5, <2>4 DEF SubnetRecord, HistInv
  <2>6. \A r \in Subnets : Justified(subnats'[r], asked'[r])
    BY <1>2, <2>1, <2>5, JustifiedMore
  <2>7. QED
    BY <1>2, <1>3, <2>1, <2>2, <2>3, <2>6 DEF HistInv
<1>6. ASSUME NEW s \in Subnets, SubnetGet(s) PROVE HistInv'
  <2>1. up /\ up' /\ subnats' = subnats /\ srec.pc = "idle"
    BY <1>6 DEF SubnetGet
  <2>2. \A r \in Subnets : Justified(subnats'[r], asked'[r])
    BY <1>2, <2>1, JustifiedMore DEF HistInv
  <2>3. apiSub[s] \in SubObjects
    BY DEF Parts, TypeOK
  <2>4. srec'.pc # "idle" => srec'.in.spec \in asked[s] /\ srec'.in.spec.vpc
                             /\ srec'.name = s
    <3>1. CASE apiSub[s].ex /\ apiSub[s].spec.vpc
      <4>1. srec' = [pc |-> "lock", name |-> s, in |-> Read(apiSub[s])]
        BY <1>6, <3>1 DEF SubnetGet
      <4>2. srec'.in.spec = apiSub[s].spec /\ srec'.name = s
        BY <2>3, <4>1, ReadType
      <4>3. apiSub[s].spec \in asked[s]
        BY <2>1, <3>1 DEF HistInv, Current
      <4>4. QED
        BY <3>1, <4>2, <4>3
    <3>2. CASE ~(apiSub[s].ex /\ apiSub[s].spec.vpc)
      BY <1>6, <2>1, <3>2 DEF SubnetGet
    <3>3. QED
      BY <3>1, <3>2
  <2>5. QED
    BY <1>2, <2>1, <2>2, <2>4 DEF HistInv
<1>7. CASE Restart
  <2>1. up' /\ ~up /\ subnats' = subnats /\ srec' = srec
    BY <1>7 DEF Restart
  <2>2. \A r \in Subnets : Justified(subnats'[r], asked'[r])
    BY <2>1, JustifiedNone DEF HistInv
  <2>3. QED
    BY <1>2, <1>3, <2>1, <2>2 DEF HistInv
<1>8. ASSUME UNCHANGED <<subnats, up>>,
             \/ srec' = srec
             \/ srec'.pc = "idle"
             \/ srec.pc # "idle" /\ srec'.in = srec.in /\ srec'.name = srec.name
      PROVE  HistInv'
  <2>1. \A r \in Subnets : Justified(subnats'[r], asked'[r])
    <3>1. CASE up
      BY <1>2, <1>8, <3>1, JustifiedMore DEF HistInv
    <3>2. CASE ~up
      BY <1>8, <3>2, JustifiedNone DEF HistInv
    <3>3. QED
      BY <3>1, <3>2
  <2>2. srec'.pc # "idle" => srec.pc # "idle" /\ srec'.in = srec.in
                             /\ srec'.name = srec.name
    BY <1>8
  <2>3. QED
    BY <1>2, <1>3, <1>8, <2>1, <2>2 DEF HistInv
<1>9. QED
  BY <1>1, <1>4, <1>5, <1>6, <1>7, <1>8, StepEffects

\* Whatever an entry of the map selects (Reconcile, vpc.go), some complete
\* version of its object selected while this process ran: a late copy, a
\* deletion and a new object under the same name add nothing else.
THEOREM NothingInvented == HistorySpec => []SelectsOnlyAsked
<1>1. HistoryInit => Parts /\ HistInv
  <2> SUFFICES ASSUME HistoryInit PROVE Parts /\ HistInv
    OBVIOUS
  <2>1. Init /\ asked = [s \in Subnets |-> {}]
    BY DEF HistoryInit
  <2>2. Parts
    BY <2>1, VpcInit
  <2>3. HistInv
    BY <2>1, NoneTypes, JustifiedNone DEF Init, HistInv, Current, NoSubnet
  <2>4. QED
    BY <2>2, <2>3
<1>2. Parts /\ HistInv /\ [HistoryNext]_<<vars, asked>> => Parts' /\ HistInv'
  <2> SUFFICES ASSUME Parts, HistInv, [HistoryNext]_<<vars, asked>>
               PROVE  Parts' /\ HistInv'
    OBVIOUS
  <2>1. CASE HistoryNext
    <3>1. Next
      BY <2>1 DEF HistoryNext
    <3>2. QED
      BY <2>1, <3>1, StepKeeps, HistoryKeeps
  <2>2. CASE UNCHANGED <<vars, asked>>
    <3>1. Parts'
      BY <2>2, StutterKeeps
    <3>2. HistInv'
      BY <2>2 DEF HistInv, Current, vars
    <3>3. QED
      BY <3>1, <3>2
  <2>3. QED
    BY <2>1, <2>2
<1>3. HistInv => SelectsOnlyAsked
  BY DEF HistInv, SelectsOnlyAsked, Justified
<1>4. QED
  BY <1>1, <1>2, <1>3, PTL DEF HistorySpec

-------------------------------------------------------------------------------
(* The vpc manager among the other controllers.                            *)

\* Names travel from the worker of the node controller through its channel
\* to the handler only once the node is in the map.
NamesInv ==
    /\ nrec \in [pc : {"idle", "lock", "wait", "send", "return"}, name : Nodes \union {""}]
    /\ hnd \in [pc : {"idle", "rlock", "copy"}, name : Nodes \union {""}]
    /\ nrec.pc # "idle" => nrec.name \in Nodes
    /\ nrec.pc \in {"send", "return"} => nrec.name \in known
    /\ nodeCh \in Seq(known)
    /\ hnd.pc # "idle" => hnd.name \in known

\* A callback that walks the nodes has the read lock of the subnets, and the
\* subnet it does so for is still one that it selects.
VisitInv ==
    /\ visit \in [Callers -> Subnets \union {NoSubnat}]
    /\ \A t \in Callers : visit[t] # NoSubnat =>
           cb[t].pc = "walk" /\ t \in vpcMu.rd /\ visit[t] \in Selected(t)

JointInv == Parts /\ NamesInv /\ VisitInv

LEMMA SeqNone == \A S : <<>> \in Seq(S)
OBVIOUS

LEMMA SeqMore == ASSUME NEW S, NEW T, S \subseteq T PROVE Seq(S) \subseteq Seq(T)
OBVIOUS

LEMMA SeqAppend == ASSUME NEW S, NEW q \in Seq(S), NEW x \in S PROVE Append(q, x) \in Seq(S)
OBVIOUS

LEMMA SeqTakes ==
    ASSUME NEW S, NEW q \in Seq(S), q # <<>>
    PROVE  Head(q) \in S /\ Tail(q) \in Seq(S)
OBVIOUS

LEMMA IdleWorkers ==
    /\ NrecIdle \in [pc : {"idle", "lock", "wait", "send", "return"}, name : Nodes \union {""}]
    /\ HndIdle \in [pc : {"idle", "rlock", "copy"}, name : Nodes \union {""}]
    /\ NrecIdle.pc = "idle" /\ HndIdle.pc = "idle"
BY DEF NrecIdle, HndIdle

LEMMA JointInit == ManagersInit => JointInv
<1> SUFFICES ASSUME ManagersInit PROVE JointInv
  OBVIOUS
<1> USE DEF ManagersInit, NodeMemory
<1>1. Parts
  BY VpcInit
<1>2. NamesInv
  <2>1. nrec = NrecIdle /\ hnd = HndIdle /\ nodeCh \in Seq(known)
    BY SeqNone
  <2>2. QED
    BY <2>1, IdleWorkers DEF NamesInv
<1>3. VisitInv
  BY DEF VisitInv
<1>4. QED
  BY <1>1, <1>2, <1>3 DEF JointInv

\* Every step of the controllers is a step of the vpc manager, or none of
\* its business.
LEMMA StepSimulation ==
    ASSUME JointInv, [ManagersNext]_allVars
    PROVE  [Next]_vars
<1> USE DEF JointInv
<1>1. CASE UNCHANGED allVars
  BY <1>1 DEF allVars
<1>2. CASE \E n \in Nodes : NodeGet(n)
  BY <1>2 DEF NodeGet
<1>3. CASE NodeLock \/ NodeSend \/ NodeReturn
  BY <1>3 DEF NodeLock, NodeSend, NodeReturn
<1>4. CASE NodeRecord
  <2>1. nrec.name \in Nodes
    BY <1>4 DEF NodeRecord, NamesInv
  <2>2. CASE nrec.name \in known
    <3>1. known' = known
      BY <1>4, <2>2 DEF NodeRecord
    <3>2. QED
      BY <1>4, <3>1 DEF NodeRecord, vars
  <2>3. CASE nrec.name \notin known
    <3>1. NodeKnown(nrec.name)
      BY <1>4, <2>3 DEF NodeRecord, NodeKnown
    <3>2. QED
      BY <2>1, <3>1 DEF Next
  <2>4. QED
    BY <2>2, <2>3
<1>5. CASE HandlerReceive \/ HandlerRLock
  BY <1>5 DEF HandlerReceive, HandlerRLock
<1>6. CASE HandlerCalls
  <2>1. hnd.name \in known /\ Call("hnd", hnd.name)
    BY <1>6 DEF HandlerCalls, NamesInv
  <2>2. QED
    BY <2>1 DEF Next, NodeEvent
<1>7. ASSUME NEW t \in Callers, Visits(t) PROVE [Next]_vars
  <2>1. CASE CallbackRLock(t) \/ CallbackReturn(t)
    BY <2>1 DEF Next, Callback
  <2>2. CASE VisitNodes(t)
    BY <2>2 DEF VisitNodes
  <2>3. CASE VisitDone(t)
    <3>1. cb[t].pc = "walk" /\ t \in vpcMu.rd /\ visit[t] \in Selected(t)
      BY <2>3 DEF VisitDone, VisitInv
    <3>2. CallbackSend(t)
      BY <2>3, <3>1 DEF VisitDone, CallbackSend
    <3>3. QED
      BY <3>2 DEF Next, Callback
  <2>4. CASE VisitPanic(t)
    <3>1. cb[t].pc = "walk" /\ t \in vpcMu.rd /\ visit[t] \in Selected(t)
      BY <2>4 DEF VisitPanic, VisitInv
    <3>2. CallbackPanic(t)
      BY <2>4, <3>1 DEF VisitPanic, CallbackPanic, ProcessDies
    <3>3. QED
      BY <3>2 DEF Next, Callback
  <2>5. QED
    BY <1>7, <2>1, <2>2, <2>3, <2>4 DEF Visits
<1>8. CASE VpcSteps
  BY <1>8 DEF VpcSteps, Next
<1>9. CASE up /\ starter /\ ProcessDies
  BY <1>9 DEF Next, StartFails, ProcessDies
<1>10. QED
  BY <1>1, <1>2, <1>3, <1>4, <1>5, <1>6, <1>7, <1>8, <1>9
  DEF ManagersNext, NodeWorker, Handler

LEMMA NamesKept ==
    ASSUME JointInv, [ManagersNext]_allVars
    PROVE  NamesInv'
<1> USE DEF JointInv, NamesInv
<1>1. CASE UNCHANGED <<known, nodeVars>>
  BY <1>1 DEF nodeVars
<1>2. CASE UNCHANGED <<known, nodeCh, nrec, hnd>>
  BY <1>2
<1>3. ASSUME NEW n \in Nodes, NodeGet(n) PROVE NamesInv'
  BY <1>3 DEF NodeGet, vars
<1>4. CASE NodeLock
  BY <1>4 DEF NodeLock, vars
<1>5. CASE NodeRecord
  <2>1. known \subseteq known' /\ nrec.name \in known'
    BY <1>5 DEF NodeRecord
  <2>2. nodeCh' \in Seq(known')
    <3>1. nodeCh \in Seq(known) /\ nodeCh' = nodeCh
      BY <1>5 DEF NodeRecord
    <3>2. QED
      BY <2>1, <3>1, SeqMore
  <2>3. QED
    BY <1>5, <2>1, <2>2 DEF NodeRecord
<1>6. CASE NodeSend
  <2>1. nrec.name \in known /\ nodeCh' = Append(nodeCh, nrec.name) /\ known' = known
    BY <1>6 DEF NodeSend, vars
  <2>2. nodeCh' \in Seq(known')
    BY <2>1, SeqAppend
  <2>3. QED
    BY <1>6, <2>1, <2>2 DEF NodeSend
<1>7. CASE NodeReturn
  BY <1>7 DEF NodeReturn, NrecIdle, vars
<1>8. CASE HandlerReceive
  <2>1. nodeCh \in Seq(known) /\ nodeCh # <<>> /\ known' = known
    BY <1>8 DEF HandlerReceive, vars
  <2>2. Head(nodeCh) \in known /\ Tail(nodeCh) \in Seq(known)
    BY <2>1, SeqTakes
  <2>3. known \subseteq Nodes
    BY DEF Parts, TypeOK
  <2>4. QED
    BY <1>8, <2>1, <2>2, <2>3 DEF HandlerReceive
<1>9. CASE HandlerRLock
  BY <1>9 DEF HandlerRLock, vars
<1>10. CASE HandlerCalls
  BY <1>10 DEF HandlerCalls, HndIdle, Call
<1>11. CASE ProcessDies
  <2>1. nrec' = NrecIdle /\ hnd' = HndIdle /\ nodeCh' \in Seq(known')
    BY <1>11, SeqNone DEF ProcessDies, NodeMemory
  <2>2. QED
    BY <2>1, IdleWorkers
<1>12. ASSUME NEW t \in Callers, Visits(t) PROVE NamesInv'
  BY <1>1, <1>2, <1>11, <1>12
  DEF Visits, CallbackRLock, CallbackReturn, VisitNodes, VisitDone, VisitPanic, vars
<1>13. CASE VpcSteps /\ UNCHANGED nodeVars
  <2>1. known' = known
    BY <1>13
    DEF VpcSteps, Users, CreateSubnet, UpdateSubnet, DeleteSubnet, ReleaseSubnet,
        StartDefault, Reconcile, SubnetGet, SubnetGetError, SubnetLock, SubnetRecord,
        SubnetRemove, NamespaceEvent, Call, Restart
  <2>2. QED
    BY <1>1, <1>13, <2>1
<1>14. CASE UNCHANGED allVars
  BY <1>1, <1>14 DEF allVars, vars
<1>15. QED
  BY <1>3, <1>4, <1>5, <1>6, <1>7, <1>8, <1>9, <1>10, <1>11, <1>12, <1>13, <1>14
  DEF ManagersNext, NodeWorker, Handler

\* A step that leaves the map of subnets alone, and a caller that walks with
\* its argument and its read lock, leaves what the caller selects.
LEMMA VisitStays ==
    ASSUME JointInv, NEW t \in Callers, visit'[t] = visit[t], subnats' = subnats,
           visit[t] # NoSubnat => cb'[t] = cb[t] /\ t \in vpcMu'.rd
    PROVE  visit'[t] # NoSubnat =>
              cb'[t].pc = "walk" /\ t \in vpcMu'.rd /\ visit'[t] \in Selected(t)'
BY DEF JointInv, VisitInv, Selected

LEMMA VisitKept ==
    ASSUME JointInv, [ManagersNext]_allVars
    PROVE  VisitInv'
<1>1. /\ visit \in [Callers -> Subnets \union {NoSubnat}] /\ cb \in [Callers -> Cbs]
      /\ vpcMu \in Mutexes(Threads) /\ Sound(vpcMu)
      /\ \A t \in Callers : visit[t] # NoSubnat =>
            cb[t].pc = "walk" /\ t \in vpcMu.rd /\ visit[t] \in Selected(t)
  BY DEF JointInv, VisitInv, Parts, TypeOK, MuInv, Cbs
<1>2. CASE UNCHANGED <<subnats, vpcMu, cb, visit>>
  <2>1. \A t \in Callers : visit'[t] # NoSubnat =>
            cb'[t].pc = "walk" /\ t \in vpcMu'.rd /\ visit'[t] \in Selected(t)'
    BY <1>1, <1>2, VisitStays
  <2>2. QED
    BY <1>1, <1>2, <2>1 DEF VisitInv
<1>3. ASSUME visit' = visit, vpcMu.rd = {} PROVE VisitInv'
  BY <1>1, <1>3 DEF VisitInv
<1>4. CASE UNCHANGED vars /\ UNCHANGED visit
  BY <1>2, <1>4 DEF vars
<1>5. ASSUME NEW t \in Callers, NEW x, Call(t, x), visit' = visit PROVE VisitInv'
  <2>1. ASSUME NEW u \in Callers
        PROVE  visit'[u] # NoSubnat =>
                  cb'[u].pc = "walk" /\ u \in vpcMu'.rd /\ visit'[u] \in Selected(u)'
    <3>1. visit[u] # NoSubnat => cb'[u] = cb[u] /\ u \in vpcMu'.rd
      BY <1>1, <1>5 DEF Call
    <3>2. QED
      BY <1>5, <3>1, VisitStays DEF Call
  <2>2. QED
    BY <1>1, <1>5, <2>1 DEF VisitInv
<1>6. ASSUME NEW t \in Callers, CallbackRLock(t), UNCHANGED nodeVars PROVE VisitInv'
  <2>1. vpcMu.rd \subseteq vpcMu'.rd
    <3>1. vpcMu.rd \subseteq RLock(vpcMu, t).rd
      BY <1>1, MutexSound, Named
    <3>2. QED
      BY <1>6, <3>1 DEF CallbackRLock
  <2>2. ASSUME NEW u \in Callers
        PROVE  visit'[u] # NoSubnat =>
                  cb'[u].pc = "walk" /\ u \in vpcMu'.rd /\ visit'[u] \in Selected(u)'
    <3>1. visit[u] # NoSubnat => cb'[u] = cb[u] /\ u \in vpcMu'.rd
      BY <1>1, <1>6, <2>1 DEF CallbackRLock
    <3>2. QED
      BY <1>6, <3>1, VisitStays DEF CallbackRLock, nodeVars
  <2>3. QED
    BY <1>1, <1>6, <2>2 DEF VisitInv, nodeVars
<1>7. ASSUME NEW t \in Callers, CallbackReturn(t), UNCHANGED nodeVars PROVE VisitInv'
  <2>1. vpcMu'.rd = vpcMu.rd \ {t}
    <3>1. RUnlock(vpcMu, t).rd = vpcMu.rd \ {t}
      BY <1>1, MutexSound, Named
    <3>2. QED
      BY <1>7, <3>1 DEF CallbackReturn
  <2>2. visit[t] = NoSubnat
    BY <1>1, <1>7 DEF CallbackReturn
  <2>3. ASSUME NEW u \in Callers
        PROVE  visit'[u] # NoSubnat =>
                  cb'[u].pc = "walk" /\ u \in vpcMu'.rd /\ visit'[u] \in Selected(u)'
    <3>1. visit[u] # NoSubnat => cb'[u] = cb[u] /\ u \in vpcMu'.rd
      BY <1>1, <1>7, <2>1, <2>2 DEF CallbackReturn
    <3>2. QED
      BY <1>7, <3>1, VisitStays DEF CallbackReturn, nodeVars
  <2>4. QED
    BY <1>1, <1>7, <2>3 DEF VisitInv, nodeVars
<1>8. ASSUME NEW t \in Callers, VisitNodes(t) PROVE VisitInv'
  <2>1. PICK s \in Selected(t) : visit' = [visit EXCEPT ![t] = s]
    BY <1>8 DEF VisitNodes
  <2>2. s \in Subnets
    BY DEF Selected
  <2>3. UNCHANGED <<subnats, cb, vpcMu>> /\ cb[t].pc = "walk" /\ t \in vpcMu.rd
    BY <1>8 DEF VisitNodes, vars
  <2>4. \A u \in Callers : Selected(u)' = Selected(u)
    BY <2>3 DEF Selected
  <2>5. QED
    BY <1>1, <2>1, <2>2, <2>3, <2>4 DEF VisitInv
<1>9. ASSUME NEW t \in Callers, VisitDone(t) PROVE VisitInv'
  <2>1. /\ visit' = [visit EXCEPT ![t] = NoSubnat] /\ cb' = [cb EXCEPT ![t].pc = "send"]
        /\ UNCHANGED <<subnats, vpcMu>>
    BY <1>9 DEF VisitDone
  <2>2. ASSUME NEW u \in Callers
        PROVE  visit'[u] # NoSubnat =>
                  cb'[u].pc = "walk" /\ u \in vpcMu'.rd /\ visit'[u] \in Selected(u)'
    <3>1. CASE u = t
      BY <1>1, <2>1, <3>1
    <3>2. CASE u # t
      <4>1. visit'[u] = visit[u] /\ cb'[u] = cb[u]
        BY <1>1, <2>1, <3>2
      <4>2. QED
        BY <1>1, <2>1, <4>1, VisitStays
    <3>3. QED
      BY <3>1, <3>2
  <2>3. QED
    BY <1>1, <2>1, <2>2 DEF VisitInv
<1>10. CASE ProcessDies
  BY <1>10 DEF ProcessDies, NodeMemory, VisitInv
<1>11. ASSUME NEW t \in Callers, Visits(t) PROVE VisitInv'
  BY <1>6, <1>7, <1>8, <1>9, <1>10, <1>11 DEF Visits, VisitPanic
<1>12. CASE SubnetLock /\ UNCHANGED nodeVars
  <2>1. vpcMu'.rd = vpcMu.rd
    <3>1. Announce(vpcMu, "srec").rd = vpcMu.rd
      BY <1>1, MutexSound, Named
    <3>2. QED
      BY <1>12, <3>1 DEF SubnetLock
  <2>2. ASSUME NEW u \in Callers
        PROVE  visit'[u] # NoSubnat =>
                  cb'[u].pc = "walk" /\ u \in vpcMu'.rd /\ visit'[u] \in Selected(u)'
    BY <1>1, <1>12, <2>1, VisitStays DEF SubnetLock, nodeVars
  <2>3. QED
    BY <1>1, <1>12, <2>2 DEF VisitInv, nodeVars
<1>13. CASE SubnetRecord /\ UNCHANGED nodeVars
  BY <1>3, <1>13 DEF SubnetRecord, CanLock, nodeVars
<1>14. ASSUME NEW ok \in BOOLEAN, SubnetRemove(ok), UNCHANGED nodeVars PROVE VisitInv'
  <2>1. vpcMu.rd = {}
    BY <1>1, <1>14 DEF SubnetRemove, JointInv, Parts, MuInv, Sound
  <2>2. QED
    BY <1>3, <1>14, <2>1 DEF nodeVars
<1>15. CASE VpcSteps /\ UNCHANGED nodeVars
  <2>1. CASE Users \/ StartDefault \/ Restart
    BY <1>2, <1>15, <2>1
    DEF Users, CreateSubnet, UpdateSubnet, DeleteSubnet, ReleaseSubnet, StartDefault,
        Restart, nodeVars
  <2>2. CASE Reconcile
    <3>1. CASE \E s \in Subnets : SubnetGet(s) \/ SubnetGetError(s)
      BY <1>2, <1>15, <3>1 DEF SubnetGet, SubnetGetError, nodeVars
    <3>2. QED
      BY <1>12, <1>13, <1>14, <1>15, <2>2, <3>1 DEF Reconcile
  <2>3. CASE NamespaceEvent
    BY <1>5, <1>15, <2>3 DEF NamespaceEvent, Callers, nodeVars
  <2>4. QED
    BY <1>15, <2>1, <2>2, <2>3 DEF VpcSteps
<1>16. CASE NodeRecord
  BY <1>2, <1>16 DEF NodeRecord
<1>17. CASE HandlerCalls
  BY <1>5, <1>17 DEF HandlerCalls, Callers
<1>18. CASE UNCHANGED allVars
  BY <1>4, <1>18 DEF allVars, nodeVars
<1>19. QED
  BY <1>4, <1>10, <1>11, <1>15, <1>16, <1>17, <1>18
  DEF ManagersNext, NodeGet, NodeWorker, NodeLock, NodeSend, NodeReturn, Handler,
      HandlerReceive, HandlerRLock

\* With its neighbours around it, whose names arrive through a channel and
\* whose mutex its callback takes inside its own, the vpc manager does what
\* VpcManager lets it do among any nodes, and nothing else.
THEOREM ManagersRefine == ManagersSpec => ImplementsVpcManager
<1>1. ManagersInit => JointInv
  BY JointInit
<1>2. JointInv /\ [ManagersNext]_allVars => JointInv'
  <2> SUFFICES ASSUME JointInv, [ManagersNext]_allVars PROVE JointInv'
    OBVIOUS
  <2>1. Parts'
    BY StepSimulation, StepKeeps DEF JointInv
  <2>2. QED
    BY <2>1, NamesKept, VisitKept DEF JointInv
<1>3. JointInv /\ [ManagersNext]_allVars => [Next]_vars
  BY StepSimulation
<1>4. ManagersInit => Init
  BY DEF ManagersInit
<1>5. QED
  BY <1>1, <1>2, <1>3, <1>4, PTL DEF ManagersSpec, ImplementsVpcManager, Spec

\* So the results about the vpc manager hold in this company: no version of
\* a spec is lost, and a callback in its send freezes the map of subnets.
THEOREM ManagersInherit == ManagersSpec => []SettledIsCovered /\ StuckFreezesMap
BY ManagersRefine, NoVersionLost, StuckCallbackFreezes, PTL DEF ImplementsVpcManager
===============================================================================
