------------------------------ MODULE ViceCBProofs ------------------------------
(***************************************************************************)
(* Proofs about ViceCB, for any number of threads, hosts, files and        *)
(* entries: what the runs check of the callback table holds in every       *)
(* reachable state, by one inductive invariant.                            *)
(***************************************************************************)
EXTENDS ViceCB, FiniteSetTheorems, WellFoundedInduction, TLAPS

\* Leaves that cite no prover need no arithmetic and are left to Zenon.
USE Zenon

Breaking == {"hosts", "reply", "sweep"}
HoldsHost == {"probe", "bind", "abandoned"}

\* What is set in the record of a thread, by where the thread is.
WellFormed(r) ==
  /\ r.pc \in Updating \cup {"fetch"} => r.file \in Files
  /\ r.pc \in HoldsHost \cup {"fetch", "check", "connect"} => r.client \in Hosts
  /\ r.pc \in Updating => r.fid \in {r.file, VolFid}
  /\ r.pc = "done" => r.fid = VolFid
  /\ r.pc \in Breaking \cup {"cblock"} => r.tf \in Entries
  /\ r.todo # {} => r.pc = "hosts"
  /\ r.locked # {} => r.pc \in {"hosts", "reply"}
  /\ \A h \in r.locked, k \in r.todo : h < k

\* The host locks of a thread.
Holds(r, h) == h \in r.locked \/ (r.pc \in HoldsHost /\ r.client = h)

CBLocks ==
  \A e \in Entries : cblock[e] # NONE =>
    th[cblock[e]].pc \in Breaking /\ th[cblock[e]].tf = e

HostLocks == \A h \in Hosts, t \in Threads : hlock[h] = t <=> Holds(th[t], h)

\* No fetch and no second update of a file that is being updated.
VnodeLocks ==
  \A t, u \in Threads :
    t # u /\ th[t].pc \in Updating /\ th[u].pc \in Updating \cup {"fetch"}
      => th[t].file # th[u].file

Owns(t) ==
  th[t].pc \in Breaking => hashTable[th[t].fid] = th[t].tf /\ cblock[th[t].tf] = t

\* Every host on the list is accounted for by the break.
Listed(t) ==
  th[t].pc \in Breaking =>
    conns[th[t].tf] \subseteq th[t].todo \cup th[t].locked \cup th[t].told \cup th[t].gone
                                \cup {th[t].client}

\* The file's callbacks are broken when the break of the volume's begins; while
\* the first break waits for the entry it found, no other entry takes its place.
Broken(t) ==
  /\ th[t].pc \in Updating /\ th[t].fid = VolFid /\ hashTable[th[t].file] # NONE =>
       conns[hashTable[th[t].file]] \subseteq {th[t].client}
  /\ th[t].pc = "cblock" /\ th[t].fid = th[t].file =>
       hashTable[th[t].file] \in {th[t].tf, NONE}

IInv ==
  /\ TablesOK
  /\ \A t \in Threads : WellFormed(th[t])
  /\ CBLocks /\ HostLocks /\ VnodeLocks
  /\ \A t \in Threads : Owns(t) /\ Listed(t) /\ Broken(t)

-----------------------------------------------------------------------------
(* Sets, sequences and the least element of a set of hosts.                *)

\* A finite set listed without repetition.
LEMMA Enumerates ==
  ASSUME NEW S, IsFiniteSet(S), NEW s \in Orders(S)
  PROVE  s \in Seq(S) /\ Range(s) = S /\ IsInjective(s)
  <1>1. Cardinality(S) \in Nat
    BY FS_CardinalityType
  <1>2. s \in [1..Cardinality(S) -> S] /\ IsInjective(s)
    BY DEF Orders, Bijection, Injection
  <1>3. s \in Seq(S)
    BY SMTT(60), <1>1, <1>2
  <1>4. Range(s) = S
    BY <1>2 DEF Orders, Bijection, Surjection, Range
  <1> QED
    BY <1>2, <1>3, <1>4

\* Two such lists of disjoint sets, one after the other.
LEMMA Concatenates ==
  ASSUME NEW S, NEW s \in Seq(S), NEW u \in Seq(S), IsInjective(s), IsInjective(u),
         Range(s) \cap Range(u) = {}
  PROVE  s \o u \in Seq(S) /\ Range(s \o u) = Range(s) \cup Range(u) /\ IsInjective(s \o u)
  <1>1. /\ s \o u \in Seq(S) /\ Len(s) \in Nat /\ Len(u) \in Nat
        /\ Len(s \o u) = Len(s) + Len(u)
        /\ DOMAIN s = 1..Len(s) /\ DOMAIN u = 1..Len(u) /\ DOMAIN (s \o u) = 1..Len(s) + Len(u)
    BY SMTT(60)
  <1>2. /\ \A i \in 1..Len(s) : i \in 1..(Len(s) + Len(u)) /\ (s \o u)[i] = s[i]
        /\ \A i \in 1..Len(u) : /\ i + Len(s) \in 1..(Len(s) + Len(u))
                                /\ (s \o u)[i + Len(s)] = u[i]
    BY SMTT(60), <1>1
  <1>3. ASSUME NEW i \in 1..(Len(s) + Len(u)), i \notin 1..Len(s)
        PROVE  i - Len(s) \in 1..Len(u) /\ (s \o u)[i] = u[i - Len(s)]
    BY SMTT(60), <1>1, <1>3
  <1>4. Range(s \o u) = Range(s) \cup Range(u)
    <2>1. ASSUME NEW x \in Range(s \o u)
          PROVE  x \in Range(s) \cup Range(u)
      <3>1. PICK i \in 1..(Len(s) + Len(u)) : x = (s \o u)[i]
        BY <1>1 DEF Range
      <3> QED
        BY <1>1, <1>2, <1>3, <3>1 DEF Range
    <2>2. ASSUME NEW x \in Range(s)
          PROVE  x \in Range(s \o u)
      BY <1>1, <1>2 DEF Range
    <2>3. ASSUME NEW x \in Range(u)
          PROVE  x \in Range(s \o u)
      <3>1. PICK i \in 1..Len(u) : x = u[i]
        BY <1>1 DEF Range
      <3> QED
        BY <1>1, <1>2, <3>1 DEF Range
    <2> QED
      BY <2>1, <2>2, <2>3
  <1>5. IsInjective(s \o u)
    <2>1. SUFFICES ASSUME NEW i \in 1..(Len(s) + Len(u)), NEW j \in 1..(Len(s) + Len(u)),
                          (s \o u)[i] = (s \o u)[j]
                   PROVE  i = j
      BY <1>1 DEF IsInjective
    <2>2. CASE i \in 1..Len(s) /\ j \in 1..Len(s)
      BY <1>1, <1>2, <2>1, <2>2 DEF IsInjective
    <2>3. CASE i \in 1..Len(s) /\ j \notin 1..Len(s)
      <3>1. s[i] \in Range(s) /\ u[j - Len(s)] \in Range(u) /\ s[i] = u[j - Len(s)]
        BY <1>1, <1>2, <1>3, <2>1, <2>3 DEF Range
      <3> QED
        BY <3>1
    <2>4. CASE i \notin 1..Len(s) /\ j \in 1..Len(s)
      <3>1. s[j] \in Range(s) /\ u[i - Len(s)] \in Range(u) /\ s[j] = u[i - Len(s)]
        BY <1>1, <1>2, <1>3, <2>1, <2>4 DEF Range
      <3> QED
        BY <3>1
    <2>5. CASE i \notin 1..Len(s) /\ j \notin 1..Len(s)
      <3>1. i - Len(s) = j - Len(s)
        BY <1>1, <1>3, <2>1, <2>5 DEF IsInjective
      <3> QED
        BY SMTT(60), <1>1, <3>1
    <2> QED
      BY <2>2, <2>3, <2>4, <2>5
  <1> QED
    BY <1>1, <1>4, <1>5

\* The head taken off such a list.
LEMMA TakesHead ==
  ASSUME NEW S, NEW u \in Seq(S), IsInjective(u), Range(u) # {}
  PROVE  /\ Head(u) \in Range(u) /\ Head(u) \in S /\ Tail(u) \in Seq(S)
         /\ Range(Tail(u)) = Range(u) \ {Head(u)} /\ IsInjective(Tail(u))
  <1>1. DOMAIN u = 1..Len(u) /\ Len(u) \in Nat
    BY SMTT(60)
  <1>2. u # <<>> /\ Len(u) > 0
    BY SMTT(60), <1>1 DEF Range
  <1>3. /\ Head(u) = u[1] /\ 1 \in 1..Len(u) /\ Tail(u) \in Seq(S) /\ u[1] \in S
        /\ DOMAIN Tail(u) = 1..(Len(u) - 1)
        /\ \A i \in 1..(Len(u) - 1) : /\ i + 1 \in 1..Len(u) /\ i + 1 # 1
                                      /\ Tail(u)[i] = u[i + 1]
        /\ \A i \in 1..Len(u) : i # 1 => i - 1 \in 1..(Len(u) - 1) /\ (i - 1) + 1 = i
    BY SMTT(60), <1>1, <1>2
  <1>4. Range(Tail(u)) = Range(u) \ {u[1]}
    <2>1. ASSUME NEW x \in Range(Tail(u))
          PROVE  x \in Range(u) /\ x # u[1]
      <3>1. PICK i \in 1..(Len(u) - 1) : x = Tail(u)[i]
        BY <1>3 DEF Range
      <3>2. i + 1 \in 1..Len(u) /\ i + 1 # 1 /\ x = u[i + 1]
        BY <1>3, <3>1
      <3> QED
        BY <1>1, <1>3, <3>2 DEF Range, IsInjective
    <2>2. ASSUME NEW x \in Range(u), x # u[1]
          PROVE  x \in Range(Tail(u))
      <3>1. PICK i \in 1..Len(u) : x = u[i]
        BY <1>1 DEF Range
      <3>2. x = Tail(u)[i - 1] /\ i - 1 \in DOMAIN Tail(u)
        BY <1>3, <2>2, <3>1
      <3> QED
        BY <3>2 DEF Range
    <2> QED
      BY <2>1, <2>2
  <1>5. IsInjective(Tail(u))
    <2>1. SUFFICES ASSUME NEW i \in 1..(Len(u) - 1), NEW j \in 1..(Len(u) - 1),
                          Tail(u)[i] = Tail(u)[j]
                   PROVE  i = j
      BY <1>3 DEF IsInjective
    <2>2. i + 1 = j + 1
      BY <1>1, <1>3, <2>1 DEF IsInjective
    <2> QED
      BY SMTT(60), <1>1, <2>2
  <1>6. u[1] \in Range(u)
    BY <1>1, <1>3 DEF Range
  <1> QED
    BY <1>3, <1>4, <1>5, <1>6

\* The image of a finite set is finite and not larger.
LEMMA FiniteImage ==
  ASSUME NEW F, IsFiniteSet(F), NEW g
  PROVE  IsFiniteSet({g[x] : x \in F}) /\ Cardinality({g[x] : x \in F}) <= Cardinality(F)
  <1> DEFINE E == {g[x] : x \in F}
             k == [x \in F |-> g[x]]
  <1>1. k \in [F -> E] /\ \A e \in E : \E x \in F : k[x] = e
    OBVIOUS
  <1>2. k \in Surjection(F, E)
    BY <1>1 DEF Surjection
  <1> HIDE DEF E, k
  <1>3. IsFiniteSet(E) /\ Cardinality(E) <= Cardinality(F)
    BY <1>2, FS_Surjection
  <1> QED
    BY <1>3 DEF E

\* Min is the least element.
LEMMA LeastHost ==
  ASSUME NEW S \in SUBSET Nat, S # {}
  PROVE  Min(S) \in S /\ \A y \in S : Min(S) <= y
  <1> DEFINE T == {0..x : x \in S}
  <1>1. \A x \in S : IsFiniteSet(0..x) /\ 0..x \in SUBSET Nat
    BY SMTT(60), FS_Interval
  <1>2. T \subseteq FiniteSubsetsOf(Nat) /\ T # {}
    BY <1>1 DEF FiniteSubsetsOf
  <1>3. PICK X \in T : \A Y \in T : <<Y, X>> \notin StrictSubsetOrdering(Nat)
    BY <1>2, FS_StrictSubsetOrderingWellFounded, WFMin
  <1>4. PICK x \in S : X = 0..x
    OBVIOUS
  <1>5. ASSUME NEW y \in S, y < x
        PROVE  FALSE
    <2>1. 0..y \in T /\ 0..y \subseteq 0..x /\ 0..y # 0..x
      BY SMTT(60), <1>5
    <2> QED
      BY <1>1, <1>3, <1>4, <2>1 DEF StrictSubsetOrdering
  <1>6. \A y \in S : x =< y
    BY SMTT(60), <1>5
  <1> QED
    BY <1>6 DEF Min

-----------------------------------------------------------------------------
(* What the operations on the table do to it.                              *)

TableType ==
  /\ hashTable \in [Fids -> Entries \cup {NONE}]
  /\ FEFree \in Seq(Entries)
  /\ conns \in [Entries -> SUBSET Hosts]
  /\ dead \in [Entries -> Nat] /\ users \in [Entries -> Nat]

\* What a step may do to the entries that t is not breaking: none that is locked
\* leaves the table or gains a host, and no file but f gains an entry or a host.
Frame(t, f) ==
  /\ \A g \in Fids, e \in Entries :
       hashTable[g] = e /\ cblock[e] \notin {t, NONE} =>
         hashTable'[g] = e /\ conns'[e] \subseteq conns[e]
  /\ \A g \in Files \ {f} : hashTable'[g] # NONE =>
       hashTable'[g] = hashTable[g] /\ conns'[hashTable[g]] \subseteq conns[hashTable[g]]

\* The fids are the files and the volume; there are as many entries as the table needs.
LEMMA FidsFinite ==
  /\ IsFiniteSet(Fids) /\ Cardinality(Fids) = Cardinality(Files) + 1
  /\ Cardinality(Files) \in Nat /\ Cardinality(Entries) \in Nat /\ VolFid \notin Files
  <1>1. IsFiniteSet(Files) /\ IsFiniteSet(Entries)
    BY ViceCBAssumption
  <1>2. VolFid \notin Files
    BY ViceCBAssumption DEF VolFid
  <1> QED
    BY <1>1, <1>2, FS_AddElement, FS_CardinalityType DEF Fids

\* A set of hosts is finite.
LEMMA HostsFinite ==
  ASSUME NEW S \in SUBSET Hosts
  PROVE  IsFiniteSet(S) /\ Cardinality(S) \in Nat
  BY ViceCBAssumption, FS_Subset, FS_CardinalityType

\* There is a free entry for a fid that has none.
LEMMA FreeEntry ==
  ASSUME TypeOK, EntriesPartitioned, NEW f \in Fids, hashTable[f] = NONE
  PROVE  Range(FEFree) # {}
  <1> DEFINE G == Fids \ {f}
             E == {hashTable[g] : g \in G}
  <1>1. IsFiniteSet(G) /\ Cardinality(G) = Cardinality(Files)
    <2>1. Cardinality(Fids \ {f}) = Cardinality(Fids) - 1 /\ IsFiniteSet(Fids \ {f})
      BY FidsFinite, FS_RemoveElement
    <2> QED
      BY SMTT(60), <2>1, FidsFinite
  <1>2. IsFiniteSet(E) /\ Cardinality(E) <= Cardinality(G)
    BY <1>1, FiniteImage
  <1>3. SUFFICES ASSUME Range(FEFree) = {}
                 PROVE  FALSE
    OBVIOUS
  <1>4. Entries \subseteq E
    BY <1>3 DEF EntriesPartitioned, InTable
  <1> HIDE DEF E, G
  <1>5. Cardinality(Entries) <= Cardinality(E) /\ Cardinality(E) \in Nat
    BY <1>2, <1>4, FS_Subset, FS_CardinalityType
  <1> QED
    BY SMTT(60), <1>1, <1>2, <1>5, FidsFinite, ViceCBAssumption

\* An entry that is not in the table is not locked.
LEMMA FreeNotBusy ==
  ASSUME IInv, NEW e \in Entries, e \notin InTable
  PROVE  ~Busy(e)
  <1>1. SUFFICES ASSUME cblock[e] # NONE
                 PROVE  FALSE
    BY DEF Busy
  <1>2. PICK t \in Threads : cblock[e] = t
    BY <1>1 DEF IInv, TablesOK, TypeOK
  <1>3. th[t].pc \in Breaking /\ th[t].tf = e
    BY <1>1, <1>2 DEF IInv, CBLocks
  <1>4. th[t].fid \in Fids
    BY <1>3 DEF IInv, WellFormed, Breaking, Updating, Fids
  <1>5. hashTable[th[t].fid] = e
    BY <1>3 DEF IInv, Owns
  <1>6. e # NONE
    BY ViceCBAssumption
  <1> QED
    BY <1>4, <1>5, <1>6 DEF InTable

\* DeleteFileStruct keeps the partition.
LEMMA Removes ==
  ASSUME TypeOK, EntriesPartitioned,
         NEW F \in SUBSET Fids, \A f \in F : hashTable[f] # NONE,
         hashTable' = Unhashed(F), FEFree' \in Freed(F)
  PROVE  /\ hashTable' \in [Fids -> Entries \cup {NONE}] /\ FEFree' \in Seq(Entries)
         /\ \A f \in Fids : hashTable'[f] = IF f \in F THEN NONE ELSE hashTable[f]
         /\ EntriesPartitioned'
         /\ InTable' \subseteq InTable
         /\ \A f \in F : hashTable[f] \notin InTable'
  <1> DEFINE E == {hashTable[f] : f \in F}
  <1>1. hashTable \in [Fids -> Entries \cup {NONE}] /\ FEFree \in Seq(Entries)
    BY DEF TypeOK
  <1>2. \A f \in Fids : hashTable'[f] = IF f \in F THEN NONE ELSE hashTable[f]
    BY DEF Unhashed
  <1>3. hashTable' \in [Fids -> Entries \cup {NONE}]
    BY <1>1 DEF Unhashed
  <1>4. E \subseteq InTable /\ E \subseteq Entries
    BY <1>1 DEF InTable
  <1>5. InTable' = InTable \ E
    <2>1. ASSUME NEW e \in InTable'
          PROVE  e \in InTable /\ e \notin E
      <3>1. PICK g \in Fids : hashTable'[g] = e /\ e # NONE
        BY DEF InTable
      <3>2. g \notin F /\ hashTable[g] = e
        BY <1>2, <3>1
      <3> QED
        BY <3>1, <3>2 DEF InTable, EntriesPartitioned
    <2>2. ASSUME NEW e \in InTable, e \notin E
          PROVE  e \in InTable'
      BY <1>2, <2>2 DEF InTable
    <2> QED
      BY <2>1, <2>2
  <1>6. \A f, g \in Fids : f # g /\ hashTable'[f] # NONE => hashTable'[f] # hashTable'[g]
    BY <1>2 DEF EntriesPartitioned
  <1>7. IsFiniteSet(F)
    BY FidsFinite, FS_Subset
  <1>8. IsFiniteSet(E)
    BY <1>7, FiniteImage
  <1>9. PICK s \in Orders(E) : FEFree' = s \o FEFree
    BY DEF Freed
  <1> HIDE DEF E
  <1>10. s \in Seq(E) /\ Range(s) = E /\ IsInjective(s)
    BY <1>8, Enumerates
  <1>11. s \in Seq(Entries)
    BY SMTT(60), <1>4, <1>10
  <1>12. Range(s) \cap Range(FEFree) = {} /\ IsInjective(FEFree)
    BY <1>4, <1>10 DEF EntriesPartitioned
  <1>13. /\ FEFree' \in Seq(Entries) /\ Range(FEFree') = E \cup Range(FEFree)
         /\ IsInjective(FEFree')
    <2>1. /\ s \o FEFree \in Seq(Entries) /\ Range(s \o FEFree) = Range(s) \cup Range(FEFree)
          /\ IsInjective(s \o FEFree)
      BY <1>1, <1>10, <1>11, <1>12, Concatenates
    <2> QED
      BY <1>9, <1>10, <2>1
  <1>14. Range(FEFree') = Entries \ InTable'
    BY <1>4, <1>5, <1>13 DEF EntriesPartitioned
  <1>15. EntriesPartitioned'
    BY <1>6, <1>13, <1>14 DEF EntriesPartitioned
  <1>16. \A f \in F : hashTable[f] \notin InTable'
    BY <1>5 DEF E
  <1> QED
    BY <1>2, <1>3, <1>5, <1>13, <1>15, <1>16

\* AddCallBack.
LEMMA AddsCallBack ==
  ASSUME IInv, NEW h \in Hosts, NEW f \in Fids, AddCallBack(h, f), cblock' = cblock
  PROVE  TableType' /\ EntriesPartitioned' /\ UsersCount' /\ Frame(NONE, f)
  <1>1. /\ hashTable \in [Fids -> Entries \cup {NONE}] /\ FEFree \in Seq(Entries)
        /\ conns \in [Entries -> SUBSET Hosts]
        /\ dead \in [Entries -> Nat] /\ users \in [Entries -> Nat]
    BY DEF IInv, TablesOK, TypeOK
  <1>2. TypeOK /\ EntriesPartitioned /\ UsersCount /\ NONE \notin Entries
    BY ViceCBAssumption DEF IInv, TablesOK
  <1>3. CASE hashTable[f] = NONE
    <2> DEFINE e == Head(FEFree)
    <2>1. /\ e \in Range(FEFree) /\ e \in Entries /\ Tail(FEFree) \in Seq(Entries)
          /\ Range(Tail(FEFree)) = Range(FEFree) \ {e} /\ IsInjective(Tail(FEFree))
      BY <1>1, <1>2, <1>3, FreeEntry, TakesHead DEF EntriesPartitioned
    <2>2. e \notin InTable
      BY <1>2, <2>1 DEF EntriesPartitioned
    <2>3. ~Busy(e)
      BY <2>1, <2>2, FreeNotBusy
    <2>4. /\ hashTable' = [hashTable EXCEPT ![f] = e] /\ FEFree' = Tail(FEFree)
          /\ conns' = [conns EXCEPT ![e] = {} \cup ({h} \ {})]
          /\ dead' = [dead EXCEPT ![e] = 0]
          /\ users' = [users EXCEPT ![e] = 0 + Cardinality({h} \ {})]
      BY <1>3, <2>3 DEF AddCallBack, FindEntry
    <2>5. {h} \ {} = {h} /\ {} \cup {h} = {h} /\ Cardinality({h}) = 1
      BY FS_Singleton
    <2>6. 0 + 1 = 1 /\ 1 = 1 + 0 /\ 1 \in Nat /\ 0 \in Nat /\ 1 > 0
      BY SMTT(60)
    <2>7. conns' = [conns EXCEPT ![e] = {h}] /\ users' = [users EXCEPT ![e] = 1]
      BY <2>4, <2>5, <2>6
    <2> HIDE DEF e
    <2>8. TableType'
      <3>1. hashTable' \in [Fids -> Entries \cup {NONE}] /\ FEFree' \in Seq(Entries)
        BY <1>1, <2>1, <2>4
      <3>2. conns' \in [Entries -> SUBSET Hosts]
        BY <1>1, <2>1, <2>7
      <3>3. dead' \in [Entries -> Nat] /\ users' \in [Entries -> Nat]
        BY <1>1, <2>1, <2>4, <2>6, <2>7
      <3> QED
        BY <3>1, <3>2, <3>3 DEF TableType
    <2>9. InTable' = InTable \cup {e}
      BY <1>1, <1>2, <1>3, <2>1, <2>4 DEF InTable
    <2>10. \A g \in Fids : hashTable[g] # e
      BY <1>2, <2>1, <2>2 DEF InTable
    <2>11. EntriesPartitioned'
      <3>1. ASSUME NEW g \in Fids, NEW k \in Fids, g # k, hashTable'[g] # NONE
            PROVE  hashTable'[g] # hashTable'[k]
        BY <1>1, <1>2, <2>4, <2>10, <3>1 DEF EntriesPartitioned
      <3>2. Range(FEFree') = Entries \ InTable'
        BY <1>2, <2>1, <2>4, <2>9 DEF EntriesPartitioned
      <3> QED
        BY <2>1, <2>4, <3>1, <3>2 DEF EntriesPartitioned
    <2>12. UsersCount'
      <3>1. SUFFICES ASSUME NEW k \in InTable'
                     PROVE  /\ users'[k] = Cardinality(conns'[k]) + dead'[k]
                            /\ ~Busy(k)' => dead'[k] = 0 /\ users'[k] > 0
        BY DEF UsersCount
      <3>2. CASE k = e
        BY <1>1, <2>1, <2>4, <2>5, <2>6, <2>7, <3>2
      <3>3. CASE k # e
        <4>a. k \in InTable
          BY <2>9, <3>3
        <4>1. k \in InTable /\ k \in Entries
          BY <1>1, <4>a DEF InTable
        <4>2. users'[k] = users[k] /\ conns'[k] = conns[k] /\ dead'[k] = dead[k]
          BY <1>1, <2>4, <2>7, <3>3, <4>1
        <4> QED
          BY <1>2, <4>1, <4>2 DEF UsersCount, Busy
      <3> QED
        BY <3>2, <3>3
    <2>13. Frame(NONE, f)
      <3>1. ASSUME NEW g \in Fids, hashTable[g] # NONE
            PROVE  hashTable'[g] = hashTable[g] /\ conns'[hashTable[g]] = conns[hashTable[g]]
        <4>1. hashTable[g] \in Entries /\ hashTable[g] # e /\ g # f
          BY <1>1, <1>3, <2>10, <3>1
        <4>2. hashTable'[g] = hashTable[g]
          BY <1>1, <2>4, <4>1
        <4>3. conns'[hashTable[g]] = conns[hashTable[g]]
          BY <1>1, <2>7, <4>1
        <4> QED
          BY <4>2, <4>3
      <3>2. \A g \in Fids \ {f} : hashTable'[g] = hashTable[g]
        BY <1>1, <2>4
      <3> QED
        BY <1>2, <3>1, <3>2 DEF Frame, Fids
    <2> QED
      BY <2>8, <2>11, <2>12, <2>13
  <1>4. CASE hashTable[f] # NONE
    <2> DEFINE e == hashTable[f]
               add == IF Busy(e) THEN {} ELSE {h} \ conns[e]
    <2>1. e \in Entries /\ e \in InTable
      BY <1>1, <1>4 DEF InTable
    <2>2. /\ hashTable' = [hashTable EXCEPT ![f] = e] /\ FEFree' = FEFree
          /\ conns' = [conns EXCEPT ![e] = conns[e] \cup add]
          /\ dead' = dead
          /\ users' = [users EXCEPT ![e] = users[e] + Cardinality(add)]
      BY <1>1, <1>4, <2>1 DEF AddCallBack, FindEntry
    <2>3. hashTable' = hashTable
      BY <1>1, <2>2
    <2>4. add \in SUBSET Hosts /\ conns[e] \in SUBSET Hosts /\ add \cap conns[e] = {}
      BY <1>1, <2>1
    <2>5. Busy(e) => add = {}
      OBVIOUS
    <2> HIDE DEF add, e
    <2>6. /\ Cardinality(add) \in Nat /\ Cardinality(conns[e]) \in Nat
          /\ Cardinality(conns[e] \cup add) = Cardinality(conns[e]) + Cardinality(add)
      <3>1. IsFiniteSet(add) /\ Cardinality(add) \in Nat
        BY <2>4, HostsFinite
      <3>2. IsFiniteSet(conns[e]) /\ Cardinality(conns[e]) \in Nat
        BY <2>4, HostsFinite
      <3>3. Cardinality(conns[e] \cap add) = 0
        BY <2>4, FS_EmptySet
      <3>4. Cardinality(conns[e] \cup add)
              = Cardinality(conns[e]) + Cardinality(add) - Cardinality(conns[e] \cap add)
        BY <3>1, <3>2, FS_Union
      <3> QED
        BY SMTT(60), <3>1, <3>2, <3>3, <3>4
    <2>7. users[e] + Cardinality(add) \in Nat
      BY SMTT(60), <1>1, <2>1, <2>6
    <2>8. TableType'
      BY <1>1, <2>1, <2>2, <2>3, <2>4, <2>7 DEF TableType
    <2>9. EntriesPartitioned' /\ InTable' = InTable
      <3>1. InTable' = InTable
        BY <2>3 DEF InTable
      <3> QED
        BY <1>2, <2>2, <2>3, <3>1 DEF EntriesPartitioned
    <2>10. UsersCount'
      <3>1. SUFFICES ASSUME NEW k \in InTable'
                     PROVE  /\ users'[k] = Cardinality(conns'[k]) + dead'[k]
                            /\ ~Busy(k)' => dead'[k] = 0 /\ users'[k] > 0
        BY DEF UsersCount
      <3>a. k \in InTable
        BY <2>9
      <3>b. k \in Entries
        BY <1>1, <3>a DEF InTable
      <3>2. k \in InTable /\ k \in Entries /\ (Busy(k)' <=> Busy(k))
        BY <1>1, <3>a, <3>b DEF Busy
      <3>3. /\ users[k] = Cardinality(conns[k]) + dead[k]
            /\ ~Busy(k) => dead[k] = 0 /\ users[k] > 0
        BY <1>2, <3>2 DEF UsersCount
      <3>4. CASE k = e
        <4>1. users'[k] = users[k] + Cardinality(add) /\ conns'[k] = conns[k] \cup add
          BY <1>1, <2>1, <2>2, <3>4
        <4>2. users[k] \in Nat /\ dead[k] \in Nat /\ dead'[k] = dead[k]
          BY <1>1, <2>2, <3>2
        <4> QED
          BY SMTT(60), <2>6, <3>2, <3>3, <3>4, <4>1, <4>2
      <3>5. CASE k # e
        BY <1>1, <2>2, <3>2, <3>3, <3>5
      <3> QED
        BY <3>4, <3>5
    <2>11. Frame(NONE, f)
      <3>1. \A k \in Entries : k # e \/ Busy(k) => conns'[k] = conns[k]
        BY <1>1, <2>2, <2>5
      <3>2. ASSUME NEW g \in Files \ {f}, hashTable'[g] # NONE
            PROVE  hashTable'[g] = hashTable[g] /\ conns'[hashTable[g]] \subseteq conns[hashTable[g]]
        <4>1. g \in Fids /\ g # f
          BY DEF Fids
        <4>2. hashTable[g] # e /\ hashTable[g] \in Entries
          BY <1>1, <1>2, <2>3, <3>2, <4>1 DEF EntriesPartitioned, e
        <4> QED
          BY <2>3, <3>1, <4>2
      <3> QED
        BY <2>3, <3>1, <3>2 DEF Frame, Busy
    <2> QED
      BY <2>8, <2>9, <2>10, <2>11
  <1> QED
    BY <1>3, <1>4

\* SDeleteCallBack, for any set of hosts and fids.
LEMMA DeletesCallBacks ==
  ASSUME IInv, NEW D, SDeleteCallBacks(D), cblock' = cblock
  PROVE  TableType' /\ EntriesPartitioned' /\ UsersCount' /\ Frame(NONE, VolFid)
  <1> DEFINE hit == {f \in Fids : /\ hashTable[f] # NONE /\ ~Busy(hashTable[f])
                                  /\ \E h \in Hosts : <<h, f>> \in D
                                  /\ Left(hashTable[f], D) <= 0}
  <1>1. /\ hashTable \in [Fids -> Entries \cup {NONE}] /\ FEFree \in Seq(Entries)
        /\ conns \in [Entries -> SUBSET Hosts]
        /\ dead \in [Entries -> Nat] /\ users \in [Entries -> Nat]
    BY DEF IInv, TablesOK, TypeOK
  <1>2. TypeOK /\ EntriesPartitioned /\ UsersCount /\ NONE \notin Entries
    BY ViceCBAssumption DEF IInv, TablesOK
  <1>3. /\ conns' = [e \in Entries |-> conns[e] \ Gone(e, D)]
        /\ dead' = [e \in Entries |-> dead[e] + IF Busy(e) THEN Cardinality(Gone(e, D)) ELSE 0]
        /\ users' = [e \in Entries |-> Left(e, D)]
        /\ hashTable' = Unhashed(hit) /\ FEFree' \in Freed(hit)
    BY DEF SDeleteCallBacks
  <1>4. hit \in SUBSET Fids /\ \A f \in hit : hashTable[f] # NONE
    OBVIOUS
  <1>5. \A f \in Fids : hashTable[f] # NONE /\ f \notin hit =>
          \/ Busy(hashTable[f])
          \/ ~\E h \in Hosts : <<h, f>> \in D
          \/ ~(Left(hashTable[f], D) <= 0)
    OBVIOUS
  <1>6. \A f \in hit : ~Busy(hashTable[f])
    OBVIOUS
  <1> HIDE DEF hit
  <1>7. /\ hashTable' \in [Fids -> Entries \cup {NONE}] /\ FEFree' \in Seq(Entries)
        /\ \A f \in Fids : hashTable'[f] = IF f \in hit THEN NONE ELSE hashTable[f]
        /\ EntriesPartitioned' /\ InTable' \subseteq InTable
    BY <1>2, <1>3, <1>4, Removes
  <1>8. ASSUME NEW e \in Entries
        PROVE  /\ conns'[e] = conns[e] \ Gone(e, D) /\ users'[e] = Left(e, D)
               /\ dead'[e] = dead[e] + IF Busy(e) THEN Cardinality(Gone(e, D)) ELSE 0
               /\ Gone(e, D) \subseteq conns[e] /\ conns'[e] \subseteq conns[e]
               /\ Cardinality(Gone(e, D)) \in Nat
               /\ Cardinality(conns[e]) \in Nat /\ Cardinality(conns'[e]) \in Nat
               /\ Cardinality(conns[e]) = Cardinality(conns'[e]) + Cardinality(Gone(e, D))
    <2>1. /\ conns'[e] = conns[e] \ Gone(e, D) /\ users'[e] = Left(e, D)
          /\ dead'[e] = dead[e] + IF Busy(e) THEN Cardinality(Gone(e, D)) ELSE 0
      BY <1>3
    <2>2. conns[e] \subseteq Hosts /\ Gone(e, D) \subseteq conns[e]
      BY <1>1 DEF Gone
    <2>3. conns[e] \cap Gone(e, D) = Gone(e, D)
      BY <2>2
    <2>4. /\ IsFiniteSet(conns[e]) /\ Cardinality(conns[e]) \in Nat
          /\ Cardinality(conns[e] \ Gone(e, D)) \in Nat /\ Cardinality(Gone(e, D)) \in Nat
      BY <2>2, HostsFinite
    <2>5. Cardinality(conns[e] \ Gone(e, D)) = Cardinality(conns[e]) - Cardinality(Gone(e, D))
      BY <2>3, <2>4, FS_Difference
    <2> QED
      BY SMTT(60), <2>1, <2>2, <2>4, <2>5
  <1>9. ASSUME NEW e \in Entries, \A f \in Fids : hashTable[f] = e => ~\E h \in Hosts : <<h, f>> \in D
        PROVE  Gone(e, D) = {} /\ Cardinality(Gone(e, D)) = 0
    <2>1. Gone(e, D) = {}
      BY <1>1, <1>9 DEF Gone
    <2> QED
      BY <2>1, FS_EmptySet
  <1>10. \A e \in Entries : e \in InTable \/ Cardinality(Gone(e, D)) = 0
    BY <1>2, <1>9 DEF InTable
  <1>11. ASSUME NEW e \in Entries
         PROVE  users'[e] \in Nat /\ dead'[e] \in Nat
    <2>1. users[e] \in Nat /\ dead[e] \in Nat
      BY <1>1
    <2>2. e \in InTable => users[e] = Cardinality(conns[e]) + dead[e]
      BY <1>2 DEF UsersCount
    <2> QED
      BY SMTT(60), <1>8, <1>10, <2>1, <2>2 DEF Left
  <1>12. TableType'
    <2>1. /\ conns' \in [Entries -> SUBSET Hosts]
          /\ DOMAIN dead' = Entries /\ dead' = [e \in Entries |-> dead'[e]]
          /\ DOMAIN users' = Entries /\ users' = [e \in Entries |-> users'[e]]
      BY <1>1, <1>3
    <2>2. dead' \in [Entries -> Nat] /\ users' \in [Entries -> Nat]
      BY <1>11, <2>1
    <2> QED
      BY <1>7, <2>1, <2>2 DEF TableType
  <1>13. UsersCount'
    <2>1. SUFFICES ASSUME NEW k \in InTable'
                   PROVE  /\ users'[k] = Cardinality(conns'[k]) + dead'[k]
                          /\ ~Busy(k)' => dead'[k] = 0 /\ users'[k] > 0
      BY DEF UsersCount
    <2>2. PICK g \in Fids : hashTable'[g] = k /\ k # NONE
      BY DEF InTable
    <2>3. g \notin hit /\ hashTable[g] = k /\ k \in Entries /\ k \in InTable
      BY <1>1, <1>7, <2>2 DEF InTable
    <2>4. /\ users[k] = Cardinality(conns[k]) + dead[k]
          /\ ~Busy(k) => dead[k] = 0 /\ users[k] > 0
      BY <1>2, <2>3 DEF UsersCount
    <2>5. Busy(k)' <=> Busy(k)
      BY DEF Busy
    <2>6. users[k] \in Nat /\ dead[k] \in Nat
      BY <1>1, <2>3
    <2>7. CASE Busy(k)
      <3>1. users'[k] = users[k] /\ dead'[k] = dead[k] + Cardinality(Gone(k, D))
        BY <1>8, <2>3, <2>7 DEF Left
      <3>2. /\ Cardinality(conns[k]) = Cardinality(conns'[k]) + Cardinality(Gone(k, D))
            /\ Cardinality(Gone(k, D)) \in Nat /\ Cardinality(conns'[k]) \in Nat
        BY <1>8, <2>3
      <3>3. users'[k] = Cardinality(conns'[k]) + dead'[k]
        BY SMTT(60), <2>4, <2>6, <3>1, <3>2
      <3> QED
        BY <2>5, <2>7, <3>3
    <2>8. CASE ~Busy(k)
      <3>1. users'[k] = users[k] - Cardinality(Gone(k, D)) /\ dead'[k] = dead[k] + 0
        BY <1>8, <2>3, <2>8 DEF Left
      <3>2. /\ Cardinality(conns[k]) = Cardinality(conns'[k]) + Cardinality(Gone(k, D))
            /\ Cardinality(Gone(k, D)) \in Nat /\ Cardinality(conns'[k]) \in Nat
        BY <1>8, <2>3
      <3>3. Cardinality(Gone(k, D)) = 0 \/ ~(users'[k] <= 0)
        <4>1. CASE \E h \in Hosts : <<h, g>> \in D
          BY <1>5, <1>8, <2>2, <2>3, <2>8, <4>1
        <4>2. CASE ~\E h \in Hosts : <<h, g>> \in D
          <5>1. \A f \in Fids : hashTable[f] = k => f = g
            BY <1>2, <2>2, <2>3 DEF EntriesPartitioned
          <5> QED
            BY <1>9, <2>3, <4>2, <5>1
        <4> QED
          BY <4>1, <4>2
      <3> QED
        BY SMTT(60), <2>4, <2>6, <2>8, <3>1, <3>2, <3>3
    <2> QED
      BY <2>7, <2>8
  <1>14. Frame(NONE, VolFid)
    <2>1. ASSUME NEW g \in Fids, NEW e \in Entries, hashTable[g] = e, cblock[e] \notin {NONE, NONE}
          PROVE  hashTable'[g] = e /\ conns'[e] \subseteq conns[e]
      BY <1>6, <1>7, <1>8, <2>1 DEF Busy
    <2>2. ASSUME NEW g \in Files \ {VolFid}, hashTable'[g] # NONE
          PROVE  hashTable'[g] = hashTable[g] /\ conns'[hashTable[g]] \subseteq conns[hashTable[g]]
      <3>1. g \in Fids
        BY DEF Fids
      <3>2. hashTable'[g] = hashTable[g]
        BY <1>7, <2>2, <3>1
      <3> QED
        BY <1>1, <1>8, <2>2, <3>1, <3>2
    <2> QED
      BY <2>1, <2>2 DEF Frame
  <1> QED
    BY <1>7, <1>12, <1>13, <1>14

\* A step that leaves the table alone and unlocks no entry.
LEMMA KeepsTable ==
  ASSUME IInv, UNCHANGED table, \A e \in Entries : cblock[e] # NONE => cblock'[e] # NONE
  PROVE  /\ TableType' /\ EntriesPartitioned' /\ UsersCount'
         /\ \A t, f : Frame(t, f)
  <1>1. /\ hashTable' = hashTable /\ FEFree' = FEFree /\ conns' = conns
        /\ dead' = dead /\ users' = users
    BY DEF table
  <1>2. TableType /\ EntriesPartitioned /\ UsersCount
    BY DEF IInv, TablesOK, TypeOK, TableType
  <1>3. InTable' = InTable
    BY <1>1 DEF InTable
  <1>4. TableType' /\ EntriesPartitioned'
    BY <1>1, <1>2, <1>3 DEF TableType, EntriesPartitioned
  <1>5. InTable \subseteq Entries
    BY <1>2 DEF TableType, InTable
  <1>6. UsersCount'
    BY <1>1, <1>2, <1>3, <1>5 DEF UsersCount, Busy
  <1>7. ASSUME NEW t, NEW f
        PROVE  Frame(t, f)
    BY <1>1 DEF Frame
  <1> QED
    BY <1>4, <1>6, <1>7

\* The end of BreakCallBack.
LEMMA Sweeps ==
  ASSUME IInv, NEW t \in Threads, BreakSweep(t)
  PROVE  TableType' /\ EntriesPartitioned' /\ UsersCount' /\ Frame(t, VolFid)
  <1> DEFINE e == th[t].tf
             i == th[t].fid
             goodc == conns[e] \cap {th[t].client}
  <1>1. /\ hashTable \in [Fids -> Entries \cup {NONE}] /\ FEFree \in Seq(Entries)
        /\ conns \in [Entries -> SUBSET Hosts]
        /\ dead \in [Entries -> Nat] /\ users \in [Entries -> Nat]
        /\ cblock \in [Entries -> Threads \cup {NONE}]
    BY DEF IInv, TablesOK, TypeOK
  <1>2. TypeOK /\ EntriesPartitioned /\ UsersCount /\ NONE \notin Entries
    BY ViceCBAssumption DEF IInv, TablesOK
  <1>3. th[t].pc = "sweep"
    BY DEF BreakSweep, AtPc
  <1>4. e \in Entries /\ i \in Fids /\ hashTable[i] = e /\ cblock[e] = t
    <2>1. th[t].pc \in Breaking /\ th[t].pc \in Updating
      BY <1>3 DEF Breaking, Updating
    <2> QED
      BY <2>1 DEF IInv, WellFormed, Owns, Fids
  <1>5. /\ cblock' = [cblock EXCEPT ![e] = NONE]
        /\ conns' = [conns EXCEPT ![e] = goodc]
        /\ dead' = [dead EXCEPT ![e] = 0]
        /\ users' = IF goodc = {} THEN users ELSE [users EXCEPT ![e] = 1]
        /\ hashTable' = IF goodc = {} THEN Unhashed({i}) ELSE hashTable
        /\ FEFree' \in IF goodc = {} THEN Freed({i}) ELSE {FEFree}
    BY DEF BreakSweep
  <1>6. goodc \in SUBSET Hosts /\ goodc \subseteq conns[e] /\ (goodc # {} => goodc = {th[t].client})
    BY <1>1, <1>4
  <1>7. goodc # {} => Cardinality(goodc) = 1
    BY <1>6, FS_Singleton
  <1> HIDE DEF e, i, goodc
  <1>8. 0 \in Nat /\ 1 \in Nat /\ 1 = 1 + 0 /\ 1 > 0
    BY SMTT(60)
  <1>9. /\ hashTable' \in [Fids -> Entries \cup {NONE}] /\ FEFree' \in Seq(Entries)
        /\ EntriesPartitioned' /\ InTable' \subseteq InTable
        /\ goodc = {} => e \notin InTable'
        /\ \A g \in Fids : g # i => hashTable'[g] = hashTable[g]
        /\ hashTable'[i] \in {hashTable[i], NONE}
    <2>1. CASE goodc = {}
      <3>1. hashTable' = Unhashed({i}) /\ FEFree' \in Freed({i})
        BY <1>5, <2>1
      <3>2. {i} \in SUBSET Fids /\ \A f \in {i} : hashTable[f] # NONE
        BY <1>2, <1>4
      <3>3. /\ hashTable' \in [Fids -> Entries \cup {NONE}] /\ FEFree' \in Seq(Entries)
            /\ \A f \in Fids : hashTable'[f] = IF f \in {i} THEN NONE ELSE hashTable[f]
            /\ EntriesPartitioned' /\ InTable' \subseteq InTable
            /\ \A f \in {i} : hashTable[f] \notin InTable'
        BY <1>2, <3>1, <3>2, Removes
      <3> QED
        BY <1>4, <3>3
    <2>2. CASE goodc # {}
      <3>1. hashTable' = hashTable /\ FEFree' = FEFree
        BY <1>5, <2>2
      <3>2. InTable' = InTable
        BY <3>1 DEF InTable
      <3> QED
        BY <1>1, <1>2, <2>2, <3>1, <3>2 DEF EntriesPartitioned
    <2> QED
      BY <2>1, <2>2
  <1>10. TableType'
    <2>1. conns' \in [Entries -> SUBSET Hosts] /\ dead' \in [Entries -> Nat]
      BY <1>1, <1>4, <1>5, <1>6, <1>8
    <2>2. users' \in [Entries -> Nat]
      BY <1>1, <1>4, <1>5, <1>8
    <2> QED
      BY <1>9, <2>1, <2>2 DEF TableType
  <1>11. \A k \in Entries : k # e =>
           /\ cblock'[k] = cblock[k] /\ conns'[k] = conns[k]
           /\ dead'[k] = dead[k] /\ users'[k] = users[k]
    <2>1. \A k \in Entries : k # e => users'[k] = users[k]
      BY <1>1, <1>5
    <2> QED
      BY <1>1, <1>5, <2>1
  <1>12. UsersCount'
    <2>1. SUFFICES ASSUME NEW k \in InTable'
                   PROVE  /\ users'[k] = Cardinality(conns'[k]) + dead'[k]
                          /\ ~Busy(k)' => dead'[k] = 0 /\ users'[k] > 0
      BY DEF UsersCount
    <2>2. k \in InTable /\ k \in Entries
      <3>1. k \in InTable
        BY <1>9
      <3> QED
        BY <1>1, <3>1 DEF InTable
    <2>3. CASE k = e
      <3>1. goodc # {}
        BY <1>9, <2>3
      <3>2. users'[k] = 1 /\ conns'[k] = goodc /\ dead'[k] = 0
        BY <1>1, <1>4, <1>5, <2>3, <3>1
      <3> QED
        BY <1>7, <1>8, <3>1, <3>2
    <2>4. CASE k # e
      BY <1>2, <1>11, <2>2, <2>4 DEF UsersCount, Busy
    <2> QED
      BY <2>3, <2>4
  <1>13. \A k \in Entries : conns'[k] \subseteq conns[k]
    BY <1>1, <1>4, <1>5, <1>6
  <1>14. Frame(t, VolFid)
    <2>1. ASSUME NEW g \in Fids, NEW k \in Entries, hashTable[g] = k, cblock[k] \notin {t, NONE}
          PROVE  hashTable'[g] = k /\ conns'[k] \subseteq conns[k]
      BY <1>4, <1>9, <1>13, <2>1
    <2>2. ASSUME NEW g \in Files \ {VolFid}, hashTable'[g] # NONE
          PROVE  hashTable'[g] = hashTable[g] /\ conns'[hashTable[g]] \subseteq conns[hashTable[g]]
      <3>1. g \in Fids
        BY DEF Fids
      <3>2. hashTable'[g] = hashTable[g]
        BY <1>9, <2>2, <3>1
      <3> QED
        BY <1>1, <1>13, <2>2, <3>1, <3>2
    <2> QED
      BY <2>1, <2>2 DEF Frame
  <1> QED
    BY <1>9, <1>10, <1>12, <1>14

\* The end of an update, DeleteFile included.
LEMMA DeletesFile ==
  ASSUME IInv, NEW t \in Threads, NEW removed, EndUpdate(t, removed)
  PROVE  TableType' /\ EntriesPartitioned' /\ UsersCount' /\ Frame(NONE, VolFid)
  <1> DEFINE f == th[t].file
             e == hashTable[f]
  <1>1. /\ hashTable \in [Fids -> Entries \cup {NONE}] /\ FEFree \in Seq(Entries)
        /\ conns \in [Entries -> SUBSET Hosts]
        /\ dead \in [Entries -> Nat] /\ users \in [Entries -> Nat]
    BY DEF IInv, TablesOK, TypeOK
  <1>2. TypeOK /\ EntriesPartitioned /\ UsersCount /\ NONE \notin Entries
    BY ViceCBAssumption DEF IInv, TablesOK
  <1>3. f \in Fids
    BY DEF EndUpdate, AtPc, IInv, WellFormed, Updating, Fids
  <1>4. cblock' = cblock
    BY DEF EndUpdate
  <1>5. CASE UNCHANGED table
    BY <1>4, <1>5, KeepsTable
  <1>6. CASE ~UNCHANGED table
    <2>1. /\ e # NONE
          /\ conns' = [conns EXCEPT ![e] = {}]
          /\ IF Busy(e)
             THEN /\ dead' = [dead EXCEPT ![e] = dead[e] + Cardinality(conns[e])]
                  /\ hashTable' = hashTable /\ FEFree' = FEFree /\ users' = users
             ELSE /\ hashTable' = Unhashed({f}) /\ FEFree' \in Freed({f})
                  /\ dead' = dead /\ users' = users
      BY <1>1, <1>3, <1>6 DEF EndUpdate, FindEntry
    <2>2. e \in Entries /\ e \in InTable
      BY <1>1, <1>3, <2>1 DEF InTable
    <2> HIDE DEF e
    <2>3. /\ \A k \in Entries : conns'[k] \subseteq conns[k]
          /\ \A k \in Entries : k # e => conns'[k] = conns[k]
          /\ conns'[e] = {} /\ conns' \in [Entries -> SUBSET Hosts]
      BY <1>1, <2>1, <2>2
    <2>4. CASE Busy(e)
      <3>1. hashTable' = hashTable /\ FEFree' = FEFree /\ users' = users
        BY <2>1, <2>4
      <3>2. dead' = [dead EXCEPT ![e] = dead[e] + Cardinality(conns[e])]
        BY <2>1, <2>4
      <3>3. InTable' = InTable
        BY <3>1 DEF InTable
      <3>4. EntriesPartitioned'
        BY <1>2, <3>1, <3>3 DEF EntriesPartitioned
      <3>5. conns[e] \in SUBSET Hosts
        BY <1>1, <2>2
      <3>6. Cardinality(conns[e]) \in Nat
        BY <3>5, HostsFinite
      <3>7. dead[e] + Cardinality(conns[e]) \in Nat
        BY SMTT(60), <1>1, <2>2, <3>6
      <3>8. dead' \in [Entries -> Nat]
        BY <1>1, <2>2, <3>2, <3>7
      <3>9. TableType'
        BY <1>1, <2>3, <3>1, <3>8 DEF TableType
      <3>10. UsersCount'
        <4>1. SUFFICES ASSUME NEW k \in InTable'
                       PROVE  /\ users'[k] = Cardinality(conns'[k]) + dead'[k]
                              /\ ~Busy(k)' => dead'[k] = 0 /\ users'[k] > 0
          BY DEF UsersCount
        <4>a. k \in InTable
          BY <3>3
        <4>b. k \in Entries
          BY <1>1, <4>a DEF InTable
        <4>2. k \in InTable /\ k \in Entries /\ (Busy(k)' <=> Busy(k))
          BY <1>4, <4>a, <4>b DEF Busy
        <4>3. CASE k = e
          <5>1. users[k] = Cardinality(conns[k]) + dead[k] /\ dead[k] \in Nat
            BY <1>1, <1>2, <4>2 DEF UsersCount
          <5>2. users'[k] = users[k] /\ dead'[k] = dead[k] + Cardinality(conns[k])
            BY <1>1, <2>2, <3>1, <3>2, <4>3
          <5>3. Cardinality(conns'[k]) = 0
            BY <2>3, <4>3, FS_EmptySet
          <5>4. users'[k] = Cardinality(conns'[k]) + dead'[k]
            BY SMTT(60), <3>6, <4>3, <5>1, <5>2, <5>3
          <5> QED
            BY <2>4, <4>2, <4>3, <5>4
        <4>4. CASE k # e
          <5>1. users'[k] = users[k] /\ dead'[k] = dead[k] /\ conns'[k] = conns[k]
            BY <1>1, <2>3, <3>1, <3>2, <4>2, <4>4
          <5> QED
            BY <1>2, <4>2, <5>1 DEF UsersCount
        <4> QED
          BY <4>3, <4>4
      <3>11. Frame(NONE, VolFid)
        BY <1>1, <2>3, <3>1 DEF Frame, Fids
      <3> QED
        BY <3>4, <3>9, <3>10, <3>11
    <2>5. CASE ~Busy(e)
      <3>1. /\ hashTable' = Unhashed({f}) /\ FEFree' \in Freed({f})
            /\ dead' = dead /\ users' = users
        BY <2>1, <2>5
      <3>2. {f} \in SUBSET Fids /\ \A g \in {f} : hashTable[g] # NONE
        BY <1>3, <2>1 DEF e
      <3>3. /\ hashTable' \in [Fids -> Entries \cup {NONE}] /\ FEFree' \in Seq(Entries)
            /\ \A g \in Fids : hashTable'[g] = IF g \in {f} THEN NONE ELSE hashTable[g]
            /\ EntriesPartitioned' /\ InTable' \subseteq InTable
            /\ \A g \in {f} : hashTable[g] \notin InTable'
        BY <1>2, <3>1, <3>2, Removes
      <3>4. TableType'
        BY <1>1, <2>3, <3>1, <3>3 DEF TableType
      <3>5. e \notin InTable'
        BY <3>3 DEF e
      <3>6. ASSUME NEW k \in InTable'
            PROVE  /\ users'[k] = Cardinality(conns'[k]) + dead'[k]
                   /\ ~Busy(k)' => dead'[k] = 0 /\ users'[k] > 0
        <4>1. k \in InTable /\ k # e
          BY <3>3, <3>5
        <4>2. k \in Entries /\ (Busy(k)' <=> Busy(k))
          BY <1>1, <1>4, <4>1 DEF InTable, Busy
        <4> QED
          BY <1>2, <2>3, <3>1, <4>1, <4>2 DEF UsersCount
      <3>7. UsersCount'
        BY <3>6 DEF UsersCount
      <3>8. ASSUME NEW g \in Fids, NEW k \in Entries, hashTable[g] = k, cblock[k] \notin {NONE, NONE}
            PROVE  hashTable'[g] = k /\ conns'[k] \subseteq conns[k]
        BY <2>3, <2>5, <3>3, <3>8 DEF Busy, e
      <3>9. ASSUME NEW g \in Files \ {VolFid}, hashTable'[g] # NONE
            PROVE  hashTable'[g] = hashTable[g] /\ conns'[hashTable[g]] \subseteq conns[hashTable[g]]
        <4>1. g \in Fids
          BY DEF Fids
        <4>2. hashTable'[g] = hashTable[g]
          BY <3>3, <3>9, <4>1
        <4> QED
          BY <1>1, <2>3, <3>9, <4>1, <4>2
      <3> QED
        BY <3>3, <3>4, <3>7, <3>8, <3>9 DEF Frame
    <2> QED
      BY <2>4, <2>5
  <1> QED
    BY <1>5, <1>6

-----------------------------------------------------------------------------
(* How the parts of the invariant are kept when t takes a step.            *)

ThreadStep(t) ==
  /\ th' \in [Threads -> Thread]
  /\ \A u \in Threads : u # t => th'[u] = th[u]
  /\ WellFormed(th'[t])

TableStep(x, f) == TableType' /\ EntriesPartitioned' /\ UsersCount' /\ Frame(x, f)

CBStep(t) ==
  /\ cblock' \in [Entries -> Threads \cup {NONE}]
  /\ \A e \in Entries : cblock[e] \notin {t, NONE} => cblock'[e] = cblock[e]
  /\ \A e \in Entries : cblock'[e] \notin {t, NONE} => cblock'[e] = cblock[e]
  /\ \A e \in Entries : cblock'[e] = t => th'[t].pc \in Breaking /\ th'[t].tf = e

HostStep(t) ==
  /\ hlock' \in [Hosts -> Threads \cup {NONE}]
  /\ \A h \in Hosts, u \in Threads : u # t => (hlock'[h] = u <=> hlock[h] = u)
  /\ \A h \in Hosts : hlock'[h] = t <=> Holds(th'[t], h)

VnodeStep(t) ==
  \A u \in Threads :
    u # t /\ (\/ th'[t].pc \in Updating /\ th[u].pc \in Updating \cup {"fetch"}
              \/ th'[t].pc = "fetch" /\ th[u].pc \in Updating)
      => th[u].file # th'[t].file

\* A step of t that keeps the table's promises and those of t keeps the invariant.
LEMMA StepKeeps ==
  ASSUME IInv, NEW t \in Threads, NEW x \in {t, NONE}, NEW f,
         ThreadStep(t), TableStep(x, f), CBStep(t), HostStep(t), VnodeStep(t),
         \A u \in Threads : u # t /\ th[u].pc \in Updating => th[u].file # f,
         id' \in [Hosts -> BOOLEAN], running' \in Threads \cup {NONE},
         Owns(t)', Listed(t)', Broken(t)'
  PROVE  IInv'
  <1>1. /\ th' \in [Threads -> Thread] /\ \A u \in Threads : u # t => th'[u] = th[u]
        /\ WellFormed(th'[t])
    BY DEF ThreadStep
  <1>2. NONE \notin Threads
    BY ViceCBAssumption
  <1>3. TablesOK'
    BY <1>1 DEF TableStep, CBStep, HostStep, TablesOK, TypeOK, TableType
  <1>4. \A u \in Threads : WellFormed(th'[u])
    BY <1>1 DEF IInv
  <1>5. CBLocks'
    <2>1. ASSUME NEW e \in Entries, cblock'[e] # NONE
          PROVE  th'[cblock'[e]].pc \in Breaking /\ th'[cblock'[e]].tf = e
      <3>1. CASE cblock'[e] = t
        BY <3>1 DEF CBStep
      <3>2. CASE cblock'[e] # t
        <4>1. cblock'[e] = cblock[e] /\ cblock'[e] \in Threads
          BY <2>1, <3>2 DEF CBStep
        <4>2. th'[cblock'[e]] = th[cblock[e]]
          BY <1>1, <3>2, <4>1
        <4> QED
          BY <2>1, <4>1, <4>2 DEF IInv, CBLocks
      <3> QED
        BY <3>1, <3>2
    <2> QED
      BY <2>1 DEF CBLocks
  <1>6. HostLocks'
    <2>1. ASSUME NEW h \in Hosts, NEW u \in Threads
          PROVE  hlock'[h] = u <=> Holds(th'[u], h)
      <3>1. CASE u = t
        BY <3>1 DEF HostStep
      <3>2. CASE u # t
        <4>1. hlock'[h] = u <=> hlock[h] = u
          BY <3>2 DEF HostStep
        <4>2. hlock[h] = u <=> Holds(th[u], h)
          BY DEF IInv, HostLocks
        <4> QED
          BY <1>1, <3>2, <4>1, <4>2
      <3> QED
        BY <3>1, <3>2
    <2> QED
      BY <2>1 DEF HostLocks
  <1>7. VnodeLocks'
    <2>1. ASSUME NEW u \in Threads, NEW v \in Threads, u # v,
                 th'[u].pc \in Updating, th'[v].pc \in Updating \cup {"fetch"}
          PROVE  th'[u].file # th'[v].file
      <3>1. CASE u = t
        BY <1>1, <2>1, <3>1 DEF VnodeStep
      <3>2. CASE v = t
        BY <1>1, <2>1, <3>2 DEF VnodeStep
      <3>3. CASE u # t /\ v # t
        BY <1>1, <2>1, <3>3 DEF IInv, VnodeLocks
      <3> QED
        BY <3>1, <3>2, <3>3
    <2> QED
      BY <2>1 DEF VnodeLocks
  <1>8. ASSUME NEW u \in Threads, u # t
        PROVE  Owns(u)' /\ Listed(u)' /\ Broken(u)'
    <2>1. th'[u] = th[u] /\ WellFormed(th[u]) /\ Owns(u) /\ Listed(u) /\ Broken(u)
      BY <1>1, <1>8 DEF IInv
    <2>2. ASSUME th[u].pc \in Breaking
          PROVE  /\ hashTable'[th[u].fid] = th[u].tf /\ cblock'[th[u].tf] = u
                 /\ conns'[th[u].tf] \subseteq conns[th[u].tf]
      <3>1. th[u].fid \in Fids /\ th[u].tf \in Entries
        BY <2>1, <2>2 DEF WellFormed, Breaking, Updating, Fids
      <3>2. hashTable[th[u].fid] = th[u].tf /\ cblock[th[u].tf] = u
        BY <2>1, <2>2 DEF Owns
      <3>3. u \notin {t, NONE} /\ u \notin {x, NONE}
        BY <1>2, <1>8
      <3>4. cblock'[th[u].tf] = u
        BY <3>1, <3>2, <3>3 DEF CBStep
      <3> QED
        BY <3>1, <3>2, <3>3, <3>4 DEF TableStep, Frame
    <2>3. Owns(u)' /\ Listed(u)'
      BY <2>1, <2>2 DEF Owns, Listed
    <2>4. ASSUME th[u].pc \in Updating, hashTable'[th[u].file] # NONE
          PROVE  /\ hashTable'[th[u].file] = hashTable[th[u].file]
                 /\ conns'[hashTable[th[u].file]] \subseteq conns[hashTable[th[u].file]]
      <3>1. th[u].file \in Files \ {f}
        BY <1>8, <2>1, <2>4 DEF WellFormed
      <3> QED
        BY <2>4, <3>1 DEF TableStep, Frame
    <2>5. Broken(u)'
      BY <2>1, <2>4 DEF Broken, Updating
    <2> QED
      BY <2>3, <2>5
  <1>9. \A u \in Threads : Owns(u)' /\ Listed(u)' /\ Broken(u)'
    BY <1>8
  <1> QED
    BY <1>3, <1>4, <1>5, <1>6, <1>7, <1>9 DEF IInv

\* A thread that has returned holds nothing.
LEMMA IdleFacts ==
  /\ Idle \in Thread /\ WellFormed(Idle) /\ Idle.pc = "idle" /\ \A h : ~Holds(Idle, h)
  <1>1. Idle \in Thread
    BY DEF Idle, Thread
  <1>2. WellFormed(Idle)
    BY DEF Idle, WellFormed, Updating, HoldsHost, Breaking
  <1>3. Idle.pc = "idle" /\ \A h : ~Holds(Idle, h)
    BY DEF Idle, Holds, HoldsHost
  <1> QED
    BY <1>1, <1>2, <1>3

\* The places of a thread are told apart.
LEMMA Places ==
  /\ \A p \in Breaking : p \in Updating /\ p \notin HoldsHost
  /\ \A p \in HoldsHost \cup {"idle", "fetch", "check", "connect"} : p \notin Updating /\ p \notin Breaking
  /\ \A p \in {"find", "cblock", "done"} : p \in Updating /\ p \notin Breaking /\ p \notin HoldsHost
  /\ \A p \in Updating : p \notin HoldsHost /\ p \notin {"idle", "fetch", "check", "connect"}
  /\ \A p \in {"idle", "fetch", "check", "connect"} : p \notin HoldsHost
  BY DEF Breaking, Updating, HoldsHost

\* A step of t changes the record of t only.
LEMMA ThreadMoves ==
  ASSUME IInv, NEW t \in Threads, NEW r \in Thread, WellFormed(r), th' = [th EXCEPT ![t] = r]
  PROVE  ThreadStep(t) /\ th'[t] = r
  <1>1. th \in [Threads -> Thread]
    BY DEF IInv, TablesOK, TypeOK
  <1> QED
    BY <1>1 DEF ThreadStep

\* A step that takes and gives up no cblock.
LEMMA KeepsCB ==
  ASSUME IInv, NEW t \in Threads, cblock' = cblock,
         th[t].pc \in Breaking => th'[t].pc \in Breaking /\ th'[t].tf = th[t].tf
  PROVE  CBStep(t)
  <1>1. cblock \in [Entries -> Threads \cup {NONE}] /\ NONE \notin Threads
    BY ViceCBAssumption DEF IInv, TablesOK, TypeOK
  <1>2. \A e \in Entries : cblock[e] = t => th[t].pc \in Breaking /\ th[t].tf = e
    BY <1>1 DEF IInv, CBLocks
  <1> QED
    BY <1>1, <1>2 DEF CBStep

\* A step that takes and gives up no host lock.
LEMMA KeepsHosts ==
  ASSUME IInv, NEW t \in Threads, hlock' = hlock,
         \A h \in Hosts : Holds(th'[t], h) <=> Holds(th[t], h)
  PROVE  HostStep(t)
  <1>1. hlock \in [Hosts -> Threads \cup {NONE}]
    BY DEF IInv, TablesOK, TypeOK
  <1>2. \A h \in Hosts : hlock[h] = t <=> Holds(th[t], h)
    BY DEF IInv, HostLocks
  <1> QED
    BY <1>1, <1>2 DEF HostStep

\* A step that takes no vnode lock.
LEMMA KeepsVnodes ==
  ASSUME IInv, NEW t \in Threads, th'[t].pc # "fetch",
         th'[t].pc \in Updating => th[t].pc \in Updating /\ th'[t].file = th[t].file
  PROVE  VnodeStep(t)
  BY DEF IInv, VnodeLocks, VnodeStep

\* The file of an update is not the volume's fid.
LEMMA FileNotVolume ==
  ASSUME IInv, NEW u \in Threads, th[u].pc \in Updating
  PROVE  th[u].file \in Files /\ th[u].file \in Fids /\ th[u].file # VolFid /\ th[u].fid \in Fids
  BY FidsFinite DEF IInv, WellFormed, Fids

\* A step that leaves the table alone.
LEMMA LocalStep ==
  ASSUME IInv, NEW t \in Threads, UNCHANGED table,
         \A e \in Entries : cblock[e] # NONE => cblock'[e] # NONE,
         ThreadStep(t), CBStep(t), HostStep(t), VnodeStep(t),
         id' \in [Hosts -> BOOLEAN], running' \in Threads \cup {NONE},
         Owns(t)', Listed(t)', Broken(t)'
  PROVE  IInv'
  <1>1. TableStep(NONE, VolFid)
    BY KeepsTable DEF TableStep
  <1>2. \A u \in Threads : u # t /\ th[u].pc \in Updating => th[u].file # VolFid
    BY FileNotVolume
  <1> QED
    BY <1>1, <1>2, StepKeeps

\* A thread that has nothing to do any more.
LEMMA GoesIdle ==
  ASSUME IInv, NEW t \in Threads, th' = [th EXCEPT ![t] = Idle]
  PROVE  /\ ThreadStep(t) /\ VnodeStep(t) /\ Owns(t)' /\ Listed(t)' /\ Broken(t)'
         /\ th'[t] = Idle
  <1>1. ThreadStep(t) /\ th'[t] = Idle
    BY IdleFacts, ThreadMoves
  <1>2. th'[t].pc = "idle"
    BY <1>1, IdleFacts
  <1>3. th'[t].pc \notin Updating /\ th'[t].pc \notin Breaking /\ th'[t].pc # "fetch" /\ th'[t].pc # "cblock"
    BY <1>2, Places
  <1>4. VnodeStep(t)
    BY <1>3, KeepsVnodes
  <1>5. Owns(t)' /\ Listed(t)' /\ Broken(t)'
    BY <1>3 DEF Owns, Listed, Broken
  <1> QED
    BY <1>1, <1>4, <1>5

\* BreakCallBack returns.
LEMMA Returns ==
  ASSUME IInv, NEW t \in Threads, th' = [th EXCEPT ![t] = Returned(th[t])],
         th[t].pc \in Updating, th[t].pc # "hosts",
         hashTable'[th[t].file] # NONE => conns'[hashTable'[th[t].file]] \subseteq {th[t].client}
  PROVE  /\ ThreadStep(t) /\ VnodeStep(t) /\ Owns(t)' /\ Listed(t)' /\ Broken(t)'
         /\ th'[t].pc \in {"find", "done"} /\ th'[t].locked = {}
  <1> DEFINE r == th[t]
             s == Returned(r)
  <1>1. r \in Thread /\ WellFormed(r)
    BY DEF IInv, TablesOK, TypeOK
  <1>2. /\ s.pc \in {"find", "done"} /\ s.fid = VolFid /\ s.tf = NONE
        /\ s.locked = {} /\ s.told = {} /\ s.gone = {}
        /\ s.file = r.file /\ s.client = r.client /\ s.todo = r.todo
    BY <1>1 DEF Returned, Thread
  <1>3. s \in Thread
    <2> DEFINE p == IF r.fid # VolFid THEN "find" ELSE "done"
    <2>1. p \in Updating /\ VolFid \in Fids
      BY DEF Updating, Fids
    <2>2. s = [r EXCEPT !.pc = p, !.fid = VolFid, !.tf = NONE,
                        !.locked = {}, !.told = {}, !.gone = {}]
      BY DEF Returned
    <2> HIDE DEF p
    <2> QED
      BY <1>1, <2>1, <2>2 DEF Thread
  <1> HIDE DEF s, r
  <1>4. r.todo = {} /\ r.file \in Files
    BY <1>1 DEF WellFormed, r
  <1>5. s.pc \in Updating /\ s.pc \notin Breaking /\ s.pc \notin HoldsHost
    BY <1>2, Places
  <1>6. s.pc \notin {"fetch", "check", "connect", "cblock"}
    BY <1>2
  <1>7. WellFormed(s)
    BY <1>2, <1>4, <1>5, <1>6 DEF WellFormed
  <1>8. ThreadStep(t) /\ th'[t] = s
    BY <1>3, <1>7, ThreadMoves DEF s, r
  <1>9. VnodeStep(t)
    BY <1>2, <1>6, <1>8, KeepsVnodes DEF r
  <1>10. Owns(t)' /\ Listed(t)'
    BY <1>5, <1>8 DEF Owns, Listed
  <1>11. Broken(t)'
    BY <1>2, <1>6, <1>8 DEF Broken, r
  <1> QED
    BY <1>2, <1>8, <1>9, <1>10, <1>11

-----------------------------------------------------------------------------
(* Every action keeps the invariant.                                       *)

\* ViceFetchPartial takes the vnode's lock.
LEMMA BeginFetchStep ==
  ASSUME IInv, NEW t \in Threads, NEW h \in Hosts, NEW f \in Files, BeginFetch(t, h, f)
  PROVE  IInv'
  <1> DEFINE r == [Idle EXCEPT !.pc = "fetch", !.file = f, !.client = h]
  <1>1. /\ th' = [th EXCEPT ![t] = r] /\ UNCHANGED table /\ cblock' = cblock /\ hlock' = hlock
        /\ id' = id /\ running' = running /\ th[t].pc = "idle" /\ ~WriteLocked(f)
    BY DEF BeginFetch, AtPc
  <1>2. /\ r \in Thread /\ r.pc = "fetch" /\ r.file = f /\ r.client = h
        /\ r.todo = {} /\ r.locked = {}
    BY DEF Idle, Thread
  <1> HIDE DEF r
  <1>3. r.pc \notin Updating /\ r.pc \notin Breaking /\ r.pc \notin HoldsHost /\ r.pc # "cblock"
    BY <1>2, Places
  <1>4. WellFormed(r)
    BY <1>2, <1>3 DEF WellFormed
  <1>5. ThreadStep(t) /\ th'[t] = r
    BY <1>1, <1>2, <1>4, ThreadMoves
  <1>6. th[t].pc \notin Breaking /\ th[t].pc \notin HoldsHost /\ th[t].locked = {}
    BY <1>1, Places DEF IInv, WellFormed
  <1>7. CBStep(t)
    BY <1>1, <1>6, KeepsCB
  <1>8. HostStep(t)
    BY <1>1, <1>2, <1>3, <1>5, <1>6, KeepsHosts DEF Holds
  <1>9. VnodeStep(t)
    BY <1>1, <1>2, <1>3, <1>5 DEF VnodeStep, WriteLocked
  <1>10. Owns(t)' /\ Listed(t)' /\ Broken(t)'
    BY <1>3, <1>5 DEF Owns, Listed, Broken
  <1>11. id' \in [Hosts -> BOOLEAN] /\ running' \in Threads \cup {NONE}
    BY <1>1 DEF IInv, TablesOK, TypeOK
  <1> QED
    BY <1>1, <1>5, <1>7, <1>8, <1>9, <1>10, <1>11, LocalStep

\* ViceFetchPartial grants a callback and returns.
LEMMA EndFetchStep ==
  ASSUME IInv, NEW t \in Threads, EndFetch(t)
  PROVE  IInv'
  <1> DEFINE f == th[t].file
             h == th[t].client
  <1>1. /\ th' = [th EXCEPT ![t] = Idle] /\ cblock' = cblock /\ hlock' = hlock
        /\ id' = id /\ running' = running /\ th[t].pc = "fetch" /\ AddCallBack(h, f)
    BY DEF EndFetch, AtPc
  <1>2. f \in Files /\ f \in Fids /\ h \in Hosts /\ th[t].locked = {}
    BY <1>1 DEF IInv, WellFormed, Fids
  <1> HIDE DEF f, h
  <1>3. TableStep(NONE, f)
    BY <1>1, <1>2, AddsCallBack DEF TableStep
  <1>4. /\ ThreadStep(t) /\ VnodeStep(t) /\ Owns(t)' /\ Listed(t)' /\ Broken(t)'
        /\ th'[t] = Idle
    BY <1>1, GoesIdle
  <1>5. th[t].pc \notin Breaking /\ th[t].pc \notin HoldsHost
    BY <1>1, Places
  <1>6. CBStep(t)
    BY <1>1, <1>5, KeepsCB
  <1>7. HostStep(t)
    <2>1. \A k \in Hosts : ~Holds(th[t], k)
      BY <1>2, <1>5 DEF Holds
    <2> QED
      BY <1>1, <1>4, <2>1, IdleFacts, KeepsHosts
  <1>8. \A u \in Threads : u # t /\ th[u].pc \in Updating => th[u].file # f
    BY <1>1 DEF IInv, VnodeLocks, f
  <1>9. id' \in [Hosts -> BOOLEAN] /\ running' \in Threads \cup {NONE}
    BY <1>1 DEF IInv, TablesOK, TypeOK
  <1> QED
    BY <1>3, <1>4, <1>6, <1>7, <1>8, <1>9, StepKeeps

\* ViceValidateVols and ViceGetVolVS grant a callback on the volume.
LEMMA ValidateVolumeStep ==
  ASSUME IInv, NEW t \in Threads, NEW h \in Hosts, ValidateVolume(t, h)
  PROVE  IInv'
  <1>1. /\ th' = th /\ cblock' = cblock /\ hlock' = hlock
        /\ id' = id /\ running' = running /\ th[t].pc = "idle" /\ AddCallBack(h, VolFid)
    BY DEF ValidateVolume, AtPc
  <1>2. VolFid \in Fids
    BY DEF Fids
  <1>3. TableStep(NONE, VolFid)
    BY <1>1, <1>2, AddsCallBack DEF TableStep
  <1>4. /\ th[t].pc \notin Breaking /\ th[t].pc \notin Updating
        /\ th[t].pc # "fetch" /\ th[t].pc # "cblock"
    BY <1>1, Places
  <1>5. ThreadStep(t)
    BY <1>1 DEF ThreadStep, IInv, TablesOK, TypeOK
  <1>6. CBStep(t) /\ HostStep(t) /\ VnodeStep(t)
    BY <1>1, <1>4, KeepsCB, KeepsHosts, KeepsVnodes
  <1>7. Owns(t)' /\ Listed(t)' /\ Broken(t)'
    BY <1>1, <1>4 DEF Owns, Listed, Broken
  <1>8. \A u \in Threads : u # t /\ th[u].pc \in Updating => th[u].file # VolFid
    BY FileNotVolume
  <1>9. id' \in [Hosts -> BOOLEAN] /\ running' \in Threads \cup {NONE}
    BY <1>1 DEF IInv, TablesOK, TypeOK
  <1> QED
    BY <1>3, <1>5, <1>6, <1>7, <1>8, <1>9, StepKeeps

\* An update locks its vnode and begins CodaBreakCallBack.
LEMMA BeginUpdateStep ==
  ASSUME IInv, NEW t \in Threads, NEW c \in Hosts \cup {NONE}, NEW f \in Files, BeginUpdate(t, c, f)
  PROVE  IInv'
  <1> DEFINE r == [Idle EXCEPT !.pc = "find", !.file = f, !.client = c, !.fid = f]
  <1>1. /\ th' = [th EXCEPT ![t] = r] /\ UNCHANGED table /\ cblock' = cblock /\ hlock' = hlock
        /\ id' = id /\ running' = t /\ th[t].pc = "idle" /\ ~WriteLocked(f) /\ ~ReadLocked(f)
    BY DEF BeginUpdate, AtPc
  <1>2. /\ r.pc = "find" /\ r.file = f /\ r.client = c /\ r.fid = f
        /\ r.todo = {} /\ r.locked = {}
    BY DEF Idle
  <1>3. r \in Thread
    BY DEF Idle, Thread, Updating, Fids
  <1> HIDE DEF r
  <1>4. r.pc \in Updating /\ r.pc \notin Breaking /\ r.pc \notin HoldsHost
    BY <1>2, Places
  <1>5. WellFormed(r)
    BY <1>2, <1>4 DEF WellFormed
  <1>6. ThreadStep(t) /\ th'[t] = r
    BY <1>1, <1>3, <1>5, ThreadMoves
  <1>7. th[t].pc \notin Breaking /\ th[t].pc \notin HoldsHost /\ th[t].locked = {}
    BY <1>1, Places DEF IInv, WellFormed
  <1>8. CBStep(t)
    BY <1>1, <1>7, KeepsCB
  <1>9. HostStep(t)
    BY <1>1, <1>2, <1>4, <1>6, <1>7, KeepsHosts DEF Holds
  <1>10. VnodeStep(t)
    BY <1>1, <1>2, <1>6 DEF VnodeStep, WriteLocked, ReadLocked
  <1>11. f # VolFid
    BY FidsFinite
  <1>12. Owns(t)' /\ Listed(t)' /\ Broken(t)'
    BY <1>2, <1>4, <1>6, <1>11 DEF Owns, Listed, Broken
  <1>13. id' \in [Hosts -> BOOLEAN] /\ running' \in Threads \cup {NONE}
    BY <1>1 DEF IInv, TablesOK, TypeOK
  <1> QED
    BY <1>1, <1>6, <1>8, <1>9, <1>10, <1>12, <1>13, LocalStep

\* BreakCallBack looks up the entry and goes on, waits for its lock, or has nothing to do.
LEMMA BreakFindStep ==
  ASSUME IInv, NEW t \in Threads, BreakFind(t)
  PROVE  IInv'
  <1>1. /\ th' = [th EXCEPT ![t] = IF hashTable[th[t].fid] = NONE THEN Returned(th[t])
                                   ELSE [th[t] EXCEPT !.pc = "cblock", !.tf = hashTable[th[t].fid]]]
        /\ UNCHANGED table /\ cblock' = cblock /\ hlock' = hlock
        /\ id' = id /\ running' = running /\ th[t].pc = "find"
    BY DEF BreakFind, AtPc, FindEntry
  <1>2. /\ th[t].pc \in Updating /\ th[t].pc \notin Breaking /\ th[t].pc \notin HoldsHost
        /\ th[t].pc # "hosts"
    BY <1>1, Places
  <1>3. th[t] \in Thread /\ WellFormed(th[t]) /\ Broken(t) /\ th[t].locked = {} /\ th[t].todo = {}
    BY <1>1 DEF IInv, WellFormed, TablesOK, TypeOK
  <1>4. th[t].file \in Files /\ th[t].file # VolFid /\ th[t].fid \in Fids
    BY <1>2, FileNotVolume
  <1>5. hashTable' = hashTable /\ conns' = conns
    BY <1>1 DEF table
  <1>6. CBStep(t)
    BY <1>1, <1>2, KeepsCB
  <1>7. id' \in [Hosts -> BOOLEAN] /\ running' \in Threads \cup {NONE}
    BY <1>1 DEF IInv, TablesOK, TypeOK
  <1>8. CASE hashTable[th[t].fid] = NONE
    <2>1. th' = [th EXCEPT ![t] = Returned(th[t])]
      BY <1>1, <1>8
    <2>2. hashTable'[th[t].file] # NONE => conns'[hashTable'[th[t].file]] \subseteq {th[t].client}
      BY <1>2, <1>3, <1>5, <1>8 DEF Broken, WellFormed
    <2>3. /\ ThreadStep(t) /\ VnodeStep(t) /\ Owns(t)' /\ Listed(t)' /\ Broken(t)'
          /\ th'[t].pc \in {"find", "done"} /\ th'[t].locked = {}
      BY <1>2, <2>1, <2>2, Returns
    <2>4. HostStep(t)
      <3>1. th'[t].pc \notin HoldsHost
        BY <2>3, Places
      <3> QED
        BY <1>1, <1>2, <1>3, <2>3, <3>1, KeepsHosts DEF Holds
    <2> QED
      BY <1>1, <1>6, <1>7, <2>3, <2>4, LocalStep
  <1>9. CASE hashTable[th[t].fid] # NONE
    <2> DEFINE r == [th[t] EXCEPT !.pc = "cblock", !.tf = hashTable[th[t].fid]]
    <2>1. th' = [th EXCEPT ![t] = r]
      BY <1>1, <1>9
    <2>2. hashTable[th[t].fid] \in Entries
      BY <1>4, <1>9 DEF IInv, TablesOK, TypeOK
    <2>3. /\ r.pc = "cblock" /\ r.tf = hashTable[th[t].fid] /\ r.file = th[t].file
          /\ r.client = th[t].client /\ r.fid = th[t].fid
          /\ r.todo = {} /\ r.locked = {}
      BY <1>3 DEF Thread
    <2>4. r \in Thread
      BY <1>3, <2>2 DEF Thread, Updating
    <2> HIDE DEF r
    <2>5. r.pc \in Updating /\ r.pc \notin Breaking /\ r.pc \notin HoldsHost
      BY <2>3, Places
    <2>6. WellFormed(r)
      BY <1>2, <1>3, <2>2, <2>3, <2>5 DEF WellFormed
    <2>7. ThreadStep(t) /\ th'[t] = r
      BY <2>1, <2>4, <2>6, ThreadMoves
    <2>8. HostStep(t)
      BY <1>1, <1>2, <1>3, <2>3, <2>5, <2>7, KeepsHosts DEF Holds
    <2>9. VnodeStep(t)
      BY <1>2, <2>3, <2>7, KeepsVnodes
    <2>10. Owns(t)' /\ Listed(t)'
      BY <2>5, <2>7 DEF Owns, Listed
    <2>11. Broken(t)'
      BY <1>2, <1>3, <1>5, <2>3, <2>7 DEF Broken
    <2> QED
      BY <1>1, <1>6, <1>7, <2>7, <2>8, <2>9, <2>10, <2>11, LocalStep
  <1> QED
    BY <1>8, <1>9

\* A thread that finds a lock taken goes on waiting.
LEMMA LockWaitStep ==
  ASSUME IInv, NEW t \in Threads, LockWait(t)
  PROVE  IInv'
  <1>1. /\ th' = th /\ UNCHANGED table /\ cblock' = cblock /\ hlock' = hlock
        /\ id' = id /\ running' = NONE
    BY DEF LockWait
  <1>2. ThreadStep(t)
    BY <1>1 DEF ThreadStep, IInv, TablesOK, TypeOK
  <1>3. CBStep(t) /\ HostStep(t)
    BY <1>1, KeepsCB, KeepsHosts
  <1>4. VnodeStep(t)
    <2>1. th[t].pc # "fetch"
      BY DEF LockWait, AtPc
    <2> QED
      BY <1>1, <2>1, KeepsVnodes
  <1>5. Owns(t)' /\ Listed(t)' /\ Broken(t)'
    BY <1>1 DEF Owns, Listed, Broken, IInv, table
  <1>6. id' \in [Hosts -> BOOLEAN] /\ running' \in Threads \cup {NONE}
    BY <1>1 DEF IInv, TablesOK, TypeOK
  <1> QED
    BY <1>1, <1>2, <1>3, <1>4, <1>5, <1>6, LocalStep

\* BreakCallBack has the entry's lock and looks the fid up again.
LEMMA BreakLockStep ==
  ASSUME IInv, NEW t \in Threads, BreakLock(t)
  PROVE  IInv'
  <1> DEFINE e == th[t].tf
  <1>1. /\ th[t].pc = "cblock" /\ ~Busy(e)
        /\ UNCHANGED table /\ hlock' = hlock /\ id' = id /\ running' = t
    BY DEF BreakLock, AtPc
  <1>2. /\ th[t].pc \in Updating /\ th[t].pc \notin Breaking /\ th[t].pc \notin HoldsHost
        /\ th[t].pc # "hosts"
    BY <1>1, Places
  <1>3. th[t] \in Thread /\ WellFormed(th[t]) /\ Broken(t) /\ th[t].locked = {} /\ th[t].todo = {}
    BY <1>1 DEF IInv, WellFormed, TablesOK, TypeOK
  <1>4. th[t].file \in Files /\ th[t].file # VolFid /\ th[t].fid \in Fids /\ e \in Entries
    BY <1>1, <1>2, <1>3, FileNotVolume DEF WellFormed
  <1>5. hashTable' = hashTable /\ conns' = conns
    BY <1>1 DEF table
  <1>6. id' \in [Hosts -> BOOLEAN] /\ running' \in Threads \cup {NONE}
    BY <1>1 DEF IInv, TablesOK, TypeOK
  <1>7. cblock \in [Entries -> Threads \cup {NONE}] /\ NONE \notin Threads /\ cblock[e] = NONE
    BY <1>1, ViceCBAssumption DEF IInv, TablesOK, TypeOK, Busy
  <1>8. CASE hashTable[th[t].fid] # e
    <2>1. th' = [th EXCEPT ![t] = Returned(th[t])] /\ cblock' = cblock
      BY <1>8 DEF BreakLock, FindEntry
    <2>2. hashTable'[th[t].file] # NONE => conns'[hashTable'[th[t].file]] \subseteq {th[t].client}
      BY <1>1, <1>2, <1>3, <1>5, <1>8 DEF Broken, WellFormed
    <2>3. /\ ThreadStep(t) /\ VnodeStep(t) /\ Owns(t)' /\ Listed(t)' /\ Broken(t)'
          /\ th'[t].pc \in {"find", "done"} /\ th'[t].locked = {}
      BY <1>2, <2>1, <2>2, Returns
    <2>4. CBStep(t)
      BY <1>2, <2>1, KeepsCB
    <2>5. HostStep(t)
      <3>1. th'[t].pc \notin HoldsHost
        BY <2>3, Places
      <3> QED
        BY <1>1, <1>2, <1>3, <2>3, <3>1, KeepsHosts DEF Holds
    <2> QED
      BY <1>1, <1>6, <2>1, <2>3, <2>4, <2>5, LocalStep
  <1>9. CASE hashTable[th[t].fid] = e
    <2> DEFINE todo == conns[e] \ {th[t].client}
               r == [th[t] EXCEPT !.pc = "hosts", !.todo = todo]
    <2>1. th \in [Threads -> Thread] /\ conns \in [Entries -> SUBSET Hosts]
      BY DEF IInv, TablesOK, TypeOK
    <2>2. th' = [th EXCEPT ![t] = r] /\ cblock' = [cblock EXCEPT ![e] = t]
      BY <1>9, <2>1 DEF BreakLock, FindEntry
    <2>3. /\ r.pc = "hosts" /\ r.todo = todo /\ r.tf = e /\ r.file = th[t].file
          /\ r.client = th[t].client /\ r.fid = th[t].fid /\ r.locked = {}
      BY <1>3 DEF Thread
    <2>4. r \in Thread
      BY <1>3, <1>4, <2>1 DEF Thread, Updating
    <2> HIDE DEF r
    <2>5. r.pc \in Updating /\ r.pc \in Breaking /\ r.pc \notin HoldsHost
      BY <2>3, Places DEF Breaking
    <2>6. WellFormed(r)
      BY <1>2, <1>3, <1>4, <2>3, <2>5 DEF WellFormed
    <2>7. ThreadStep(t) /\ th'[t] = r
      BY <2>2, <2>4, <2>6, ThreadMoves
    <2>8. CBStep(t)
      <3>1. \A k \in Entries : cblock[k] # t
        BY <1>2, <1>7 DEF IInv, CBLocks
      <3> QED
        BY <1>4, <1>7, <2>2, <2>3, <2>5, <2>7, <3>1 DEF CBStep
    <2>9. HostStep(t)
      BY <1>1, <1>2, <1>3, <2>3, <2>5, <2>7, KeepsHosts DEF Holds
    <2>10. VnodeStep(t)
      BY <1>2, <2>3, <2>7, KeepsVnodes
    <2>11. Owns(t)'
      BY <1>4, <1>5, <1>7, <1>9, <2>2, <2>3, <2>7 DEF Owns
    <2>12. Listed(t)'
      BY <1>5, <2>3, <2>7 DEF Listed
    <2>13. Broken(t)'
      BY <1>2, <1>3, <1>5, <2>3, <2>7 DEF Broken
    <2>14. \A k \in Entries : cblock[k] # NONE => cblock'[k] # NONE
      BY <1>4, <1>7, <2>2
    <2> QED
      BY <1>1, <1>6, <2>7, <2>8, <2>9, <2>10, <2>11, <2>12, <2>13, <2>14, LocalStep
  <1> QED
    BY <1>8, <1>9

\* The steps of a break between the lock of the entry and its release.
LEMMA BreakMoves ==
  ASSUME IInv, NEW t \in Threads, NEW r \in Thread, th[t].pc \in Breaking, r.pc \in Breaking,
         th' = [th EXCEPT ![t] = r],
         r.file = th[t].file /\ r.client = th[t].client /\ r.fid = th[t].fid /\ r.tf = th[t].tf,
         r.todo # {} => r.pc = "hosts", r.locked # {} => r.pc \in {"hosts", "reply"},
         \A h \in r.locked, k \in r.todo : h < k,
         th[t].todo \cup th[t].locked \cup th[t].told \cup th[t].gone
           \subseteq r.todo \cup r.locked \cup r.told \cup r.gone,
         cblock' = cblock, TableStep(NONE, VolFid)
  PROVE  /\ ThreadStep(t) /\ th'[t] = r /\ CBStep(t) /\ VnodeStep(t)
         /\ Owns(t)' /\ Listed(t)' /\ Broken(t)'
  <1>1. th[t].pc \in Updating /\ r.pc \in Updating /\ r.pc \notin HoldsHost
    BY Places
  <1>2. r.pc \notin {"fetch", "check", "connect", "done", "cblock"}
    BY DEF Breaking
  <1>3. WellFormed(th[t]) /\ Owns(t) /\ Listed(t) /\ Broken(t)
    BY DEF IInv
  <1>4. WellFormed(r)
    BY <1>1, <1>2, <1>3 DEF WellFormed
  <1>5. ThreadStep(t) /\ th'[t] = r
    BY <1>4, ThreadMoves
  <1>6. CBStep(t)
    BY <1>5, KeepsCB
  <1>7. VnodeStep(t)
    BY <1>1, <1>2, <1>5, KeepsVnodes
  <1>8. th[t].file \in Files \ {VolFid} /\ th[t].fid \in Fids /\ th[t].tf \in Entries
    BY <1>1, <1>3, FileNotVolume DEF WellFormed
  <1>9. hashTable[th[t].fid] = th[t].tf /\ cblock[th[t].tf] = t
    BY <1>3 DEF Owns
  <1>10. NONE \notin Threads
    BY ViceCBAssumption
  <1>a. /\ cblock[th[t].tf] \notin {NONE, NONE}
        /\ \A g \in Fids, e \in Entries :
             hashTable[g] = e /\ cblock[e] \notin {NONE, NONE} =>
               hashTable'[g] = e /\ conns'[e] \subseteq conns[e]
    BY <1>9, <1>10 DEF TableStep, Frame
  <1>11. hashTable'[th[t].fid] = th[t].tf /\ conns'[th[t].tf] \subseteq conns[th[t].tf]
    BY <1>8, <1>9, <1>a
  <1>12. Owns(t)'
    BY <1>5, <1>9, <1>11 DEF Owns
  <1>13. Listed(t)'
    BY <1>3, <1>5, <1>11 DEF Listed
  <1>14. hashTable'[th[t].file] # NONE =>
           /\ hashTable'[th[t].file] = hashTable[th[t].file]
           /\ conns'[hashTable[th[t].file]] \subseteq conns[hashTable[th[t].file]]
    BY <1>8 DEF TableStep, Frame
  <1>15. Broken(t)'
    BY <1>1, <1>2, <1>3, <1>5, <1>14 DEF Broken
  <1> QED
    BY <1>5, <1>6, <1>7, <1>12, <1>13, <1>15

\* BreakCallBack locks the next host, or passes it over.
LEMMA BreakHostsStep ==
  ASSUME IInv, NEW t \in Threads, BreakHosts(t)
  PROVE  IInv'
  <1> DEFINE h == Min(th[t].todo)
             r == IF id[h] THEN [th[t] EXCEPT !.todo = @ \ {h}, !.locked = @ \cup {h}]
                  ELSE [th[t] EXCEPT !.todo = @ \ {h}, !.gone = @ \cup {h}]
  <1>1. /\ th \in [Threads -> Thread] /\ hlock \in [Hosts -> Threads \cup {NONE}]
        /\ id \in [Hosts -> BOOLEAN] /\ NONE \notin Threads
    BY ViceCBAssumption DEF IInv, TablesOK, TypeOK
  <1>2. /\ th[t].pc = "hosts" /\ th[t].todo # {} /\ hlock[h] = NONE
        /\ hlock' = IF id[h] THEN [hlock EXCEPT ![h] = t] ELSE hlock
        /\ UNCHANGED table /\ cblock' = cblock /\ id' = id /\ running' = t
    BY DEF BreakHosts, AtPc
  <1>3. th' = [th EXCEPT ![t] = r]
    BY <1>1 DEF BreakHosts
  <1>4. th[t] \in Thread /\ th[t].todo \in SUBSET Hosts /\ th[t].todo \in SUBSET Nat
    BY <1>1, ViceCBAssumption DEF Thread
  <1>5. h \in th[t].todo /\ \A k \in th[t].todo : h <= k
    BY <1>2, <1>4, LeastHost
  <1> HIDE DEF h
  <1>6. /\ r.pc = "hosts" /\ r.file = th[t].file /\ r.client = th[t].client
        /\ r.fid = th[t].fid /\ r.tf = th[t].tf /\ r.todo = th[t].todo \ {h} /\ r.told = th[t].told
        /\ r.locked = IF id[h] THEN th[t].locked \cup {h} ELSE th[t].locked
        /\ r.gone = IF id[h] THEN th[t].gone ELSE th[t].gone \cup {h}
    BY <1>2, <1>4 DEF Thread
  <1>7. r \in Thread
    <2>1. h \in Hosts
      BY <1>4, <1>5
    <2>2. CASE id[h]
      BY <1>4, <2>1, <2>2 DEF Thread
    <2>3. CASE ~id[h]
      BY <1>4, <2>1, <2>3 DEF Thread
    <2> QED
      BY <2>2, <2>3
  <1> HIDE DEF r
  <1>8. \A l \in r.locked, k \in r.todo : l < k
    <2>1. SUFFICES ASSUME NEW l \in r.locked, NEW k \in r.todo
                   PROVE  l < k
      OBVIOUS
    <2>2. k \in th[t].todo /\ k # h /\ (l \in th[t].locked \/ l = h)
      BY <1>6
    <2>3. CASE l \in th[t].locked
      BY <2>2, <2>3 DEF IInv, WellFormed
    <2>4. CASE l = h
      <3>1. h \in Nat /\ k \in Nat /\ h <= k
        BY <1>4, <1>5, <2>2
      <3> QED
        BY SMTT(60), <2>2, <2>4, <3>1
    <2> QED
      BY <2>2, <2>3, <2>4
  <1>9. th[t].pc \in Breaking /\ r.pc \in Breaking /\ r.pc \notin HoldsHost
    BY <1>2, <1>6, Places DEF Breaking
  <1>10. TableStep(NONE, VolFid)
    BY <1>2, KeepsTable DEF TableStep
  <1>11. th[t].todo \cup th[t].locked \cup th[t].told \cup th[t].gone
           \subseteq r.todo \cup r.locked \cup r.told \cup r.gone
    BY <1>6
  <1>12. /\ ThreadStep(t) /\ th'[t] = r /\ CBStep(t) /\ VnodeStep(t)
         /\ Owns(t)' /\ Listed(t)' /\ Broken(t)'
    BY <1>2, <1>3, <1>6, <1>7, <1>8, <1>9, <1>10, <1>11, BreakMoves
  <1>13. HostStep(t)
    <2>1. h \in Hosts /\ th[t].pc \notin HoldsHost
      BY <1>4, <1>5, <1>9, Places
    <2>2. \A k \in Hosts : hlock[k] = t <=> k \in th[t].locked
      BY <2>1 DEF IInv, HostLocks, Holds
    <2>3. \A k \in Hosts : Holds(r, k) <=> k \in r.locked
      BY <1>9 DEF Holds
    <2>4. CASE id[h]
      <3>1. hlock' = [hlock EXCEPT ![h] = t] /\ r.locked = th[t].locked \cup {h}
        BY <1>2, <1>6, <2>4
      <3>2. \A k \in Hosts : hlock'[k] = t <=> k \in r.locked
        BY <1>1, <2>1, <2>2, <3>1
      <3>3. \A k \in Hosts, u \in Threads : u # t => (hlock'[k] = u <=> hlock[k] = u)
        BY <1>1, <1>2, <2>1, <3>1
      <3>4. hlock' \in [Hosts -> Threads \cup {NONE}]
        BY <1>1, <3>1
      <3> QED
        BY <1>12, <2>3, <3>2, <3>3, <3>4 DEF HostStep
    <2>5. CASE ~id[h]
      <3>1. hlock' = hlock /\ r.locked = th[t].locked
        BY <1>2, <1>6, <2>5
      <3> QED
        BY <1>1, <1>12, <2>2, <2>3, <3>1 DEF HostStep
    <2> QED
      BY <2>4, <2>5
  <1>14. id' \in [Hosts -> BOOLEAN] /\ running' \in Threads \cup {NONE}
    BY <1>1, <1>2
  <1> QED
    BY <1>2, <1>12, <1>13, <1>14, LocalStep

\* BreakCallBack sends the MultiRPC.
LEMMA BreakSendStep ==
  ASSUME IInv, NEW t \in Threads, BreakSend(t)
  PROVE  IInv'
  <1> DEFINE p == IF th[t].locked = {} THEN "sweep" ELSE "reply"
             r == [th[t] EXCEPT !.pc = p]
  <1>1. /\ th[t].pc = "hosts" /\ th[t].todo = {} /\ th' = [th EXCEPT ![t] = r]
        /\ running' \in {t, NONE}
        /\ UNCHANGED table /\ cblock' = cblock /\ hlock' = hlock /\ id' = id
    <2>1. th \in [Threads -> Thread]
      BY DEF IInv, TablesOK, TypeOK
    <2> QED
      BY <2>1 DEF BreakSend, AtPc, Goto
  <1>2. th[t] \in Thread
    BY DEF IInv, TablesOK, TypeOK
  <1>3. p \in Breaking /\ p \in Updating /\ (p = "sweep" => th[t].locked = {}) /\ p \in {"sweep", "reply"}
    BY DEF Breaking, Updating
  <1> HIDE DEF p
  <1>4. /\ r.pc = p /\ r.file = th[t].file /\ r.client = th[t].client
        /\ r.fid = th[t].fid /\ r.tf = th[t].tf /\ r.todo = th[t].todo /\ r.told = th[t].told
        /\ r.locked = th[t].locked /\ r.gone = th[t].gone
    BY <1>2 DEF Thread
  <1>5. r \in Thread
    BY <1>2, <1>3 DEF Thread
  <1> HIDE DEF r
  <1>6. th[t].pc \in Breaking /\ r.pc \in Breaking /\ r.pc \notin HoldsHost /\ th[t].pc \notin HoldsHost
    BY <1>1, <1>3, <1>4, Places DEF Breaking
  <1>7. TableStep(NONE, VolFid)
    BY <1>1, KeepsTable DEF TableStep
  <1>8. r.todo = {} /\ (r.locked # {} => r.pc \in {"hosts", "reply"})
    BY <1>1, <1>3, <1>4
  <1>9. th[t].todo \cup th[t].locked \cup th[t].told \cup th[t].gone
          \subseteq r.todo \cup r.locked \cup r.told \cup r.gone
    BY <1>4
  <1>10. /\ ThreadStep(t) /\ th'[t] = r /\ CBStep(t) /\ VnodeStep(t)
         /\ Owns(t)' /\ Listed(t)' /\ Broken(t)'
    BY <1>1, <1>4, <1>5, <1>6, <1>7, <1>8, <1>9, BreakMoves
  <1>11. HostStep(t)
    BY <1>1, <1>4, <1>6, <1>10, KeepsHosts DEF Holds
  <1>12. id' \in [Hosts -> BOOLEAN] /\ running' \in Threads \cup {NONE}
    BY <1>1 DEF IInv, TablesOK, TypeOK
  <1> QED
    BY <1>1, <1>10, <1>11, <1>12, LocalStep

\* The MultiRPC returns and the hosts that failed are cleaned up.
LEMMA BreakReplyStep ==
  ASSUME IInv, NEW t \in Threads, NEW failed \in SUBSET Hosts, BreakReply(t, failed)
  PROVE  IInv'
  <1> DEFINE L == th[t].locked
             r == [th[t] EXCEPT !.pc = "sweep", !.told = @ \cup L, !.locked = {}]
             D == (IF th[t].fid = VolFid THEN {} ELSE L \X {VolFid}) \cup DeleteVenus(failed)
  <1>1. /\ th \in [Threads -> Thread] /\ hlock \in [Hosts -> Threads \cup {NONE}]
        /\ id \in [Hosts -> BOOLEAN] /\ NONE \notin Threads
    BY ViceCBAssumption DEF IInv, TablesOK, TypeOK
  <1>2. /\ th[t].pc = "reply" /\ SDeleteCallBacks(D)
        /\ id' = [h \in Hosts |-> id[h] /\ h \notin failed]
        /\ hlock' = [h \in Hosts |-> IF h \in L THEN NONE ELSE hlock[h]]
        /\ cblock' = cblock /\ running' = t
    BY DEF BreakReply, AtPc
  <1>3. th' = [th EXCEPT ![t] = r]
    BY <1>1 DEF BreakReply
  <1>4. th[t] \in Thread /\ L \subseteq Hosts /\ th[t].todo = {}
    BY <1>1, <1>2 DEF Thread, IInv, WellFormed
  <1> HIDE DEF D
  <1>5. TableStep(NONE, VolFid)
    BY <1>2, DeletesCallBacks DEF TableStep
  <1>6. /\ r.pc = "sweep" /\ r.file = th[t].file /\ r.client = th[t].client
        /\ r.fid = th[t].fid /\ r.tf = th[t].tf /\ r.todo = {} /\ r.told = th[t].told \cup L
        /\ r.locked = {} /\ r.gone = th[t].gone
    BY <1>4 DEF Thread
  <1>7. r \in Thread
    BY <1>4 DEF Thread, Updating
  <1> HIDE DEF r
  <1>8. th[t].pc \in Breaking /\ r.pc \in Breaking /\ r.pc \notin HoldsHost /\ th[t].pc \notin HoldsHost
    BY <1>2, <1>6, Places DEF Breaking
  <1>9. th[t].todo \cup th[t].locked \cup th[t].told \cup th[t].gone
          \subseteq r.todo \cup r.locked \cup r.told \cup r.gone
    BY <1>4, <1>6
  <1>10. /\ ThreadStep(t) /\ th'[t] = r /\ CBStep(t) /\ VnodeStep(t)
         /\ Owns(t)' /\ Listed(t)' /\ Broken(t)'
    BY <1>2, <1>3, <1>5, <1>6, <1>7, <1>8, <1>9, BreakMoves
  <1>11. HostStep(t)
    <2>1. \A h \in Hosts, u \in Threads : hlock[h] = u <=> Holds(th[u], h)
      BY DEF IInv, HostLocks
    <2>2. \A h \in Hosts : hlock[h] = t <=> h \in L
      BY <1>8, <2>1 DEF Holds
    <2>3. \A h : ~Holds(r, h)
      BY <1>6, <1>8 DEF Holds
    <2>4. hlock' \in [Hosts -> Threads \cup {NONE}]
      BY <1>1, <1>2
    <2>5. \A h \in Hosts : hlock'[h] # t
      BY <1>1, <1>2, <2>2
    <2>6. ASSUME NEW h \in Hosts, NEW u \in Threads, u # t
          PROVE  hlock'[h] = u <=> hlock[h] = u
      <3>1. CASE h \in L
        <4>1. hlock[h] = t /\ hlock'[h] = NONE
          BY <1>1, <1>2, <2>2, <3>1
        <4> QED
          BY <2>6, <4>1, ViceCBAssumption
      <3>2. CASE h \notin L
        BY <1>1, <1>2, <3>2
      <3> QED
        BY <3>1, <3>2
    <2> QED
      BY <1>10, <2>3, <2>4, <2>5, <2>6 DEF HostStep
  <1>12. id' \in [Hosts -> BOOLEAN] /\ running' \in Threads \cup {NONE}
    BY <1>1, <1>2
  <1>13. \A u \in Threads : u # t /\ th[u].pc \in Updating => th[u].file # VolFid
    BY FileNotVolume
  <1> QED
    BY <1>5, <1>10, <1>11, <1>12, <1>13, StepKeeps

\* BreakCallBack frees the entries of the hosts and then the FileEntry.
LEMMA BreakSweepStep ==
  ASSUME IInv, NEW t \in Threads, BreakSweep(t)
  PROVE  IInv'
  <1> DEFINE e == th[t].tf
  <1>1. /\ th[t].pc = "sweep" /\ cblock' = [cblock EXCEPT ![e] = NONE]
        /\ conns' = [conns EXCEPT ![e] = conns[e] \cap {th[t].client}]
        /\ th' = [th EXCEPT ![t] = Returned(th[t])]
        /\ running' = t /\ hlock' = hlock /\ id' = id
    BY DEF BreakSweep, AtPc
  <1>2. /\ th[t].pc \in Updating /\ th[t].pc \in Breaking /\ th[t].pc \notin HoldsHost
        /\ th[t].pc # "hosts" /\ th[t].pc # "cblock"
    BY <1>1, Places DEF Breaking
  <1>3. WellFormed(th[t]) /\ Owns(t) /\ Broken(t) /\ th[t].locked = {}
    BY <1>1 DEF IInv, WellFormed
  <1>4. /\ th[t].file \in Files /\ th[t].file # VolFid /\ e \in Entries
        /\ hashTable[th[t].fid] = e /\ th[t].fid \in {th[t].file, VolFid}
    BY <1>2, <1>3, FileNotVolume DEF WellFormed, Owns
  <1>5. /\ cblock \in [Entries -> Threads \cup {NONE}] /\ conns \in [Entries -> SUBSET Hosts]
        /\ id \in [Hosts -> BOOLEAN] /\ NONE \notin Threads
    BY ViceCBAssumption DEF IInv, TablesOK, TypeOK
  <1>6. TableStep(t, VolFid)
    BY Sweeps DEF TableStep
  <1>7. hashTable'[th[t].file] # NONE =>
          /\ hashTable'[th[t].file] = hashTable[th[t].file]
          /\ conns'[hashTable[th[t].file]] \subseteq conns[hashTable[th[t].file]]
    BY <1>4, <1>6 DEF TableStep, Frame
  <1>8. hashTable'[th[t].file] # NONE => conns'[hashTable'[th[t].file]] \subseteq {th[t].client}
    <2>1. CASE th[t].fid = VolFid
      BY <1>2, <1>3, <1>7, <2>1 DEF Broken
    <2>2. CASE th[t].fid = th[t].file
      <3>1. conns'[e] \subseteq {th[t].client}
        BY <1>1, <1>4, <1>5
      <3> QED
        BY <1>4, <1>7, <2>2, <3>1
    <2> QED
      BY <1>4, <2>1, <2>2
  <1>9. /\ ThreadStep(t) /\ VnodeStep(t) /\ Owns(t)' /\ Listed(t)' /\ Broken(t)'
        /\ th'[t].pc \in {"find", "done"} /\ th'[t].locked = {}
    BY <1>1, <1>2, <1>8, Returns
  <1>10. CBStep(t)
    <2>1. \A k \in Entries : cblock[k] = t => k = e
      BY <1>5 DEF IInv, CBLocks
    <2>2. cblock' \in [Entries -> Threads \cup {NONE}] /\ \A k \in Entries : cblock'[k] # t
      BY <1>1, <1>4, <1>5, <2>1
    <2>3. cblock[e] = t
      BY <1>2, <1>3 DEF Owns
    <2>4. \A k \in Entries : k # e => cblock'[k] = cblock[k]
      BY <1>1, <1>5
    <2>5. cblock'[e] = NONE
      BY <1>1, <1>4, <1>5
    <2> QED
      BY <2>2, <2>3, <2>4, <2>5 DEF CBStep
  <1>11. HostStep(t)
    <2>1. th'[t].pc \notin HoldsHost
      BY <1>9, Places
    <2> QED
      BY <1>1, <1>2, <1>3, <1>9, <2>1, KeepsHosts DEF Holds
  <1>12. id' \in [Hosts -> BOOLEAN] /\ running' \in Threads \cup {NONE}
    BY <1>1, <1>5
  <1>13. \A u \in Threads : u # t /\ th[u].pc \in Updating => th[u].file # VolFid
    BY FileNotVolume
  <1> QED
    BY <1>6, <1>9, <1>10, <1>11, <1>12, <1>13, StepKeeps

\* The update takes effect and the vnode is unlocked.
LEMMA EndUpdateStep ==
  ASSUME IInv, NEW t \in Threads, NEW removed \in BOOLEAN, EndUpdate(t, removed)
  PROVE  IInv'
  <1>1. /\ th[t].pc = "done" /\ th' = [th EXCEPT ![t] = Idle]
        /\ running' = NONE /\ cblock' = cblock /\ hlock' = hlock /\ id' = id
    BY DEF EndUpdate, AtPc
  <1>2. TableStep(NONE, VolFid)
    BY DeletesFile DEF TableStep
  <1>3. /\ ThreadStep(t) /\ VnodeStep(t) /\ Owns(t)' /\ Listed(t)' /\ Broken(t)'
        /\ th'[t] = Idle
    BY <1>1, GoesIdle
  <1>4. th[t].pc \notin Breaking /\ th[t].pc \notin HoldsHost /\ th[t].locked = {}
    BY <1>1, Places DEF IInv, WellFormed
  <1>5. CBStep(t)
    BY <1>1, <1>4, KeepsCB
  <1>6. HostStep(t)
    <2>1. \A k \in Hosts : ~Holds(th[t], k)
      BY <1>4 DEF Holds
    <2> QED
      BY <1>1, <1>3, <2>1, IdleFacts, KeepsHosts
  <1>7. \A u \in Threads : u # t /\ th[u].pc \in Updating => th[u].file # VolFid
    BY FileNotVolume
  <1>8. id' \in [Hosts -> BOOLEAN] /\ running' \in Threads \cup {NONE}
    BY <1>1 DEF IInv, TablesOK, TypeOK
  <1> QED
    BY <1>2, <1>3, <1>5, <1>6, <1>7, <1>8, StepKeeps

\* The probe of a host, or its new connection, begins.
LEMMA BeginHostStep ==
  ASSUME IInv, NEW t \in Threads, NEW p \in {"check", "connect"}, NEW h \in Hosts, BeginHost(t, p, h)
  PROVE  IInv'
  <1> DEFINE r == [Idle EXCEPT !.pc = p, !.client = h]
  <1>1. /\ th' = [th EXCEPT ![t] = r] /\ UNCHANGED table /\ cblock' = cblock /\ hlock' = hlock
        /\ id' = id /\ running' = t /\ th[t].pc = "idle"
    BY DEF BeginHost, AtPc
  <1>2. r.pc = p /\ r.client = h /\ r.todo = {} /\ r.locked = {}
    BY DEF Idle
  <1>3. r \in Thread
    BY DEF Idle, Thread
  <1> HIDE DEF r
  <1>4. /\ r.pc \notin Updating /\ r.pc \notin Breaking /\ r.pc \notin HoldsHost
        /\ r.pc # "cblock" /\ r.pc # "fetch" /\ r.pc # "done"
    BY <1>2, Places
  <1>5. WellFormed(r)
    BY <1>2, <1>4 DEF WellFormed
  <1>6. ThreadStep(t) /\ th'[t] = r
    BY <1>1, <1>3, <1>5, ThreadMoves
  <1>7. th[t].pc \notin Breaking /\ th[t].pc \notin HoldsHost /\ th[t].locked = {}
    BY <1>1, Places DEF IInv, WellFormed
  <1>8. CBStep(t)
    BY <1>1, <1>7, KeepsCB
  <1>9. HostStep(t)
    BY <1>1, <1>2, <1>4, <1>6, <1>7, KeepsHosts DEF Holds
  <1>10. VnodeStep(t)
    BY <1>4, <1>6, KeepsVnodes
  <1>11. Owns(t)' /\ Listed(t)' /\ Broken(t)'
    BY <1>4, <1>6 DEF Owns, Listed, Broken
  <1>12. id' \in [Hosts -> BOOLEAN] /\ running' \in Threads \cup {NONE}
    BY <1>1 DEF IInv, TablesOK, TypeOK
  <1> QED
    BY <1>1, <1>6, <1>8, <1>9, <1>10, <1>11, <1>12, LocalStep

\* It takes the host's lock.
LEMMA LockHostStep ==
  ASSUME IInv, NEW t \in Threads, LockHost(t)
  PROVE  IInv'
  <1> DEFINE h == th[t].client
             p == IF th[t].pc = "check" /\ ~id[h] THEN "abandoned"
                  ELSE IF th[t].pc = "check" THEN "probe" ELSE "bind"
             r == [th[t] EXCEPT !.pc = p]
  <1>1. /\ th \in [Threads -> Thread] /\ hlock \in [Hosts -> Threads \cup {NONE}]
        /\ NONE \notin Threads
    BY ViceCBAssumption DEF IInv, TablesOK, TypeOK
  <1>2. /\ th[t].pc \in {"check", "connect"} /\ th' = [th EXCEPT ![t] = r]
        /\ hlock[h] = NONE /\ hlock' = [hlock EXCEPT ![h] = t] /\ running' \in {t, NONE}
        /\ UNCHANGED table /\ cblock' = cblock /\ id' = id
    BY <1>1 DEF LockHost, AtPc, Goto
  <1>3. p \in HoldsHost
    BY DEF HoldsHost
  <1>4. th[t] \in Thread /\ h \in Hosts /\ th[t].todo = {} /\ th[t].locked = {}
    BY <1>1, <1>2 DEF IInv, WellFormed
  <1> HIDE DEF p, h
  <1>5. r.pc = p /\ r.client = h /\ r.todo = {} /\ r.locked = {}
    BY <1>4 DEF Thread, h
  <1>6. r \in Thread
    BY <1>3, <1>4 DEF Thread, HoldsHost
  <1> HIDE DEF r
  <1>7. /\ r.pc \in HoldsHost /\ r.pc \notin Updating /\ r.pc \notin Breaking
        /\ r.pc \notin {"fetch", "check", "connect", "cblock", "done"}
    BY <1>3, <1>5, Places DEF HoldsHost
  <1>8. WellFormed(r)
    BY <1>4, <1>5, <1>7 DEF WellFormed
  <1>9. ThreadStep(t) /\ th'[t] = r
    BY <1>2, <1>6, <1>8, ThreadMoves
  <1>10. th[t].pc \notin Breaking /\ th[t].pc \notin HoldsHost
    BY <1>2, Places
  <1>11. CBStep(t)
    BY <1>2, <1>10, KeepsCB
  <1>12. HostStep(t)
    <2>1. \A k \in Hosts : hlock[k] # t
      BY <1>4, <1>10 DEF IInv, HostLocks, Holds
    <2>2. hlock' \in [Hosts -> Threads \cup {NONE}]
      BY <1>1, <1>2
    <2>3. \A k \in Hosts, u \in Threads : u # t => (hlock'[k] = u <=> hlock[k] = u)
      BY <1>1, <1>2, <1>4
    <2>4. \A k \in Hosts : hlock'[k] = t <=> k = h
      BY <1>1, <1>2, <1>4, <2>1
    <2>5. \A k \in Hosts : Holds(r, k) <=> k = h
      BY <1>5, <1>7 DEF Holds
    <2> QED
      BY <1>9, <2>2, <2>3, <2>4, <2>5 DEF HostStep
  <1>13. VnodeStep(t)
    BY <1>7, <1>9, KeepsVnodes
  <1>14. Owns(t)' /\ Listed(t)' /\ Broken(t)'
    BY <1>7, <1>9 DEF Owns, Listed, Broken
  <1>15. id' \in [Hosts -> BOOLEAN] /\ running' \in Threads \cup {NONE}
    BY <1>2 DEF IInv, TablesOK, TypeOK
  <1> QED
    BY <1>2, <1>9, <1>11, <1>12, <1>13, <1>14, <1>15, LocalStep

\* It ends, and a host that did not answer is cleaned up.
LEMMA EndHostStep ==
  ASSUME IInv, NEW t \in Threads, NEW up \in BOOLEAN, EndHost(t, up)
  PROVE  IInv'
  <1> DEFINE h == th[t].client
  <1>1. /\ hlock \in [Hosts -> Threads \cup {NONE}] /\ id \in [Hosts -> BOOLEAN]
        /\ NONE \notin Threads
    BY ViceCBAssumption DEF IInv, TablesOK, TypeOK
  <1>2. /\ th[t].pc \in HoldsHost /\ th' = [th EXCEPT ![t] = Idle]
        /\ id' = [id EXCEPT ![h] = up] /\ hlock' = [hlock EXCEPT ![h] = NONE]
        /\ running' = NONE /\ cblock' = cblock
        /\ IF up THEN UNCHANGED table ELSE SDeleteCallBacks(DeleteVenus({h}))
    BY DEF EndHost, AtPc, HoldsHost
  <1>3. TableStep(NONE, VolFid)
    BY <1>2, KeepsTable, DeletesCallBacks DEF TableStep
  <1>4. /\ ThreadStep(t) /\ VnodeStep(t) /\ Owns(t)' /\ Listed(t)' /\ Broken(t)'
        /\ th'[t] = Idle
    BY <1>2, GoesIdle
  <1>5. th[t].pc \notin Breaking /\ th[t].locked = {} /\ h \in Hosts
    BY <1>2, Places DEF IInv, WellFormed, HoldsHost
  <1>6. CBStep(t)
    BY <1>2, <1>5, KeepsCB
  <1>7. HostStep(t)
    <2>1. \A k \in Hosts : hlock[k] = t <=> k = h
      BY <1>2, <1>5 DEF IInv, HostLocks, Holds
    <2>2. hlock' \in [Hosts -> Threads \cup {NONE}] /\ \A k \in Hosts : hlock'[k] # t
      BY <1>1, <1>2, <1>5, <2>1
    <2>3. ASSUME NEW k \in Hosts, NEW u \in Threads, u # t
          PROVE  hlock'[k] = u <=> hlock[k] = u
      <3>1. CASE k = h
        <4>1. hlock[k] = t /\ hlock'[k] = NONE
          BY <1>1, <1>2, <2>1, <3>1
        <4> QED
          BY <2>3, <4>1, ViceCBAssumption
      <3>2. CASE k # h
        BY <1>1, <1>2, <3>2
      <3> QED
        BY <3>1, <3>2
    <2> QED
      BY <1>4, <2>2, <2>3, IdleFacts DEF HostStep
  <1>8. \A u \in Threads : u # t /\ th[u].pc \in Updating => th[u].file # VolFid
    BY FileNotVolume
  <1>9. id' \in [Hosts -> BOOLEAN] /\ running' \in Threads \cup {NONE}
    BY <1>1, <1>2, <1>5
  <1> QED
    BY <1>3, <1>4, <1>6, <1>7, <1>8, <1>9, StepKeeps

-----------------------------------------------------------------------------
(* The invariant and what follows from it.                                 *)

\* The invariant holds of the empty table,
LEMMA InitHolds == Init => IInv
  <1> SUFFICES ASSUME Init
               PROVE  IInv
    OBVIOUS
  <1>1. IsFiniteSet(Entries) /\ NONE \notin Threads
    BY ViceCBAssumption
  <1>2. FEFree \in Seq(Entries) /\ Range(FEFree) = Entries /\ IsInjective(FEFree)
    BY <1>1, Enumerates DEF Init
  <1>3. InTable = {}
    BY DEF Init, InTable
  <1>4. EntriesPartitioned
    BY <1>2, <1>3 DEF EntriesPartitioned, Init
  <1>5. UsersCount
    BY <1>3 DEF UsersCount
  <1>6. /\ hashTable \in [Fids -> Entries \cup {NONE}] /\ conns \in [Entries -> SUBSET Hosts]
        /\ cblock \in [Entries -> Threads \cup {NONE}] /\ hlock \in [Hosts -> Threads \cup {NONE}]
        /\ id \in [Hosts -> BOOLEAN] /\ running \in Threads \cup {NONE}
    BY DEF Init
  <1>7. dead \in [Entries -> Nat] /\ users \in [Entries -> Nat]
    BY SMTT(60) DEF Init
  <1>8. th \in [Threads -> Thread]
    BY IdleFacts DEF Init
  <1>9. TablesOK
    BY <1>2, <1>4, <1>5, <1>6, <1>7, <1>8 DEF TablesOK, TypeOK
  <1>10. \A t \in Threads : th[t] = Idle
    BY DEF Init
  <1>11. Idle.pc \notin Updating /\ Idle.pc \notin Breaking /\ Idle.pc # "cblock"
    BY IdleFacts, Places
  <1>12. CBLocks /\ VnodeLocks
    BY <1>10, <1>11 DEF Init, CBLocks, VnodeLocks
  <1>13. HostLocks
    BY <1>1, <1>10, IdleFacts DEF Init, HostLocks
  <1>14. \A t \in Threads : WellFormed(th[t]) /\ Owns(t) /\ Listed(t) /\ Broken(t)
    BY <1>10, <1>11, IdleFacts DEF Owns, Listed, Broken
  <1> QED
    BY <1>9, <1>12, <1>13, <1>14 DEF IInv

\* every step keeps it,
LEMMA NextKeeps ==
  ASSUME IInv, [Next]_vars
  PROVE  IInv'
  <1>1. CASE UNCHANGED vars
    <2>1. /\ UNCHANGED table /\ cblock' = cblock /\ hlock' = hlock /\ id' = id /\ th' = th
          /\ running' = running
      BY <1>1 DEF vars, table
    <2>2. TableType' /\ EntriesPartitioned' /\ UsersCount'
      BY <2>1, KeepsTable
    <2>3. TablesOK'
      BY <2>1, <2>2 DEF TablesOK, TypeOK, TableType, IInv
    <2>4. CBLocks' /\ HostLocks' /\ VnodeLocks' /\ \A t \in Threads : WellFormed(th'[t])
      BY <2>1 DEF IInv, CBLocks, HostLocks, VnodeLocks
    <2>5. \A t \in Threads : Owns(t)' /\ Listed(t)' /\ Broken(t)'
      BY <2>1 DEF IInv, Owns, Listed, Broken, table
    <2> QED
      BY <2>3, <2>4, <2>5 DEF IInv
  <1>2. ASSUME NEW t \in Threads,
               \/ \E h \in Hosts, f \in Files : BeginFetch(t, h, f)
               \/ EndFetch(t)
               \/ \E h \in Hosts : ValidateVolume(t, h)
               \/ \E c \in Hosts \cup {NONE}, f \in Files : BeginUpdate(t, c, f)
               \/ BreakFind(t)
               \/ LockWait(t)
               \/ BreakLock(t)
               \/ BreakHosts(t)
        PROVE  IInv'
    BY <1>2, BeginFetchStep, EndFetchStep, ValidateVolumeStep, BeginUpdateStep, BreakFindStep,
       LockWaitStep, BreakLockStep, BreakHostsStep
  <1>3. ASSUME NEW t \in Threads,
               \/ BreakSend(t)
               \/ \E failed \in SUBSET Hosts : BreakReply(t, failed)
               \/ BreakSweep(t)
               \/ \E removed \in BOOLEAN : EndUpdate(t, removed)
               \/ \E p \in {"check", "connect"}, h \in Hosts : BeginHost(t, p, h)
               \/ LockHost(t)
               \/ \E up \in BOOLEAN : EndHost(t, up)
        PROVE  IInv'
    BY <1>3, BreakSendStep, BreakReplyStep, BreakSweepStep, EndUpdateStep, BeginHostStep,
       LockHostStep, EndHostStep
  <1> QED
    BY <1>1, <1>2, <1>3 DEF Next

\* and so it holds of every reachable state.
LEMMA Invariant == Spec => []IInv
  BY InitHolds, NextKeeps, PTL DEF Spec

\* TablesOK, the callback table: under any interleaving of fetches, updates,
\* liveness checks and binds, no FileEntry is freed twice, leaked or hashed
\* under two fids (GetFE, DeleteFileStruct), and FileEntry.users counts the
\* CallBackEntries, those a concurrent SDeleteCallBack cleared included.
THEOREM ViceCBTables == Spec => []TablesOK
  <1>1. IInv => TablesOK
    BY DEF IInv
  <1> QED
    BY <1>1, Invariant, PTL

\* BreakerOwnsEntry: across the waits of BreakCallBack for host locks and for
\* the MultiRPC its FileEntry stays in the table under its fid and locked.
THEOREM ViceCBOwner == Spec => []BreakerOwnsEntry
  <1>1. IInv => BreakerOwnsEntry
    BY DEF IInv, Owns, BreakerOwnsEntry, FindEntry, Breaking
  <1> QED
    BY <1>1, Invariant, PTL

\* NoSilentDrop: BreakCallBack frees a host's CallBackEntry only if it called
\* the host or found its callback connection gone.
THEOREM ViceCBNoSilentDrop == Spec => []NoSilentDrop
  <1>1. ASSUME IInv, NEW t \in Threads, th[t].pc = "sweep"
        PROVE  conns[th[t].tf] \subseteq th[t].told \cup th[t].gone \cup {th[t].client}
    <2>1. th[t].todo = {} /\ th[t].locked = {}
      BY <1>1 DEF IInv, WellFormed
    <2> QED
      BY <1>1, <2>1 DEF IInv, Listed, Breaking
  <1>2. IInv => NoSilentDrop
    BY <1>1 DEF NoSilentDrop
  <1> QED
    BY <1>2, Invariant, PTL

\* FileBroken: when CodaBreakCallBack has returned, no host but the writer's
\* has a callback on the file that is about to change.
THEOREM ViceCBFileBroken == Spec => []FileBroken
  <1>1. ASSUME IInv, NEW t \in Threads, th[t].pc = "done", hashTable[th[t].file] # NONE
        PROVE  conns[hashTable[th[t].file]] \subseteq {th[t].client}
    BY <1>1 DEF IInv, WellFormed, Broken, Updating
  <1>2. IInv => FileBroken
    BY <1>1 DEF FileBroken, FindEntry
  <1> QED
    BY <1>2, Invariant, PTL

\* A thread that waits for one that itself waits, waits for a break that holds
\* the lock; and if it is a break too, its next host comes before the other's.
LEMMA WaitsForBreak ==
  ASSUME IInv, NEW t \in Threads, NEW u \in Threads, Waits(t, u),
         th[u].pc \in {"cblock", "hosts", "check", "connect"}
  PROVE  /\ th[u].pc = "hosts"
         /\ th[t].pc = "hosts" => /\ th[t].todo # {}
                                  /\ \A k \in th[u].todo : Min(th[t].todo) < k
  <1>1. th[u].pc \notin HoldsHost /\ NONE \notin Threads
    BY ViceCBAssumption DEF HoldsHost
  <1>2. \A h \in Hosts : hlock[h] = u => h \in th[u].locked
    BY <1>1 DEF IInv, HostLocks, Holds
  <1>3. \A h \in Hosts : hlock[h] = u => th[u].pc = "hosts" /\ \A k \in th[u].todo : h < k
    BY <1>2 DEF IInv, WellFormed
  <1>4. CASE th[t].pc = "cblock" /\ cblock[th[t].tf] = u
    <2>1. th[t].tf \in Entries
      BY <1>4 DEF IInv, WellFormed
    <2>2. th[u].pc \in Breaking
      BY <1>1, <1>4, <2>1 DEF IInv, CBLocks
    <2> QED
      BY <1>4, <2>2 DEF Breaking
  <1>5. CASE th[t].pc = "hosts" /\ th[t].todo # {} /\ hlock[Min(th[t].todo)] = u
    <2>1. th[t].todo \subseteq Hosts /\ th[t].todo \in SUBSET Nat
      BY ViceCBAssumption DEF IInv, TablesOK, TypeOK, Thread
    <2>2. Min(th[t].todo) \in Hosts
      BY <1>5, <2>1, LeastHost
    <2> QED
      BY <1>3, <1>5, <2>2
  <1>6. CASE th[t].pc \in {"check", "connect"} /\ hlock[th[t].client] = u
    <2>1. th[t].client \in Hosts
      BY <1>6 DEF IInv, WellFormed
    <2> QED
      BY <1>3, <1>6, <2>1
  <1> QED
    BY <1>4, <1>5, <1>6 DEF Waits

\* NoWaitCycle: threads that wait for cblocks and host locks never wait for one
\* another in a circle, since BreakCallBack takes the host locks in the order of
\* their addresses and waits for no cblock while it holds one.
THEOREM ViceCBNoWaitCycle == Spec => []NoWaitCycle
  <1>1. ASSUME IInv, NEW T \in SUBSET {t \in Threads : th[t].pc \in {"cblock", "hosts", "check", "connect"}},
               T # {}, \A t \in T : \E u \in T : Waits(t, u)
        PROVE  FALSE
    <2> DEFINE B == {t \in T : th[t].pc = "hosts"}
               m(t) == Min(th[t].todo)
               Above(t) == {u \in B : m(t) < m(u)}
               F == {Above(t) : t \in B}
    <2>1. \A t \in T : t \in Threads /\ th[t].pc \in {"cblock", "hosts", "check", "connect"}
      OBVIOUS
    <2>2. \A t \in T : \E u \in B : Waits(t, u)
      BY <1>1, <2>1, WaitsForBreak
    <2>3. B # {} /\ \A t \in B : \E u \in B : Waits(t, u)
      BY <1>1, <2>2
    <2>4. ASSUME NEW t \in B
          PROVE  th[t].todo # {} /\ m(t) \in th[t].todo /\ m(t) \in Nat
      <3>1. PICK u \in B : Waits(t, u)
        BY <2>3
      <3>2. th[t].todo # {}
        BY <1>1, <2>1, <3>1, WaitsForBreak
      <3>3. th[t].todo \in SUBSET Nat
        BY <1>1, <2>1, ViceCBAssumption DEF IInv, TablesOK, TypeOK, Thread
      <3> QED
        BY <3>2, <3>3, LeastHost
    <2>5. ASSUME NEW t \in B, NEW u \in B, Waits(t, u)
          PROVE  m(t) < m(u)
      <3>1. t \in Threads /\ u \in Threads /\ th[t].pc = "hosts" /\ th[u].pc = "hosts"
        BY <2>1
      <3>2. \A k \in th[u].todo : Min(th[t].todo) < k
        BY <1>1, <2>5, <3>1, WaitsForBreak
      <3>3. Min(th[u].todo) \in th[u].todo
        BY <2>4
      <3> QED
        BY <3>2, <3>3
    <2>6. IsFiniteSet(B)
      <3>1. B \in SUBSET Threads
        BY <2>1
      <3> QED
        BY <3>1, ViceCBAssumption, FS_Subset
    <2>7. F \subseteq FiniteSubsetsOf(B) /\ F # {}
      <3>1. \A t \in B : Above(t) \in SUBSET B
        OBVIOUS
      <3>2. \A t \in B : IsFiniteSet(Above(t))
        BY <2>6, <3>1, FS_Subset
      <3>3. \A t \in B : Above(t) \in FiniteSubsetsOf(B)
        BY <3>1, <3>2 DEF FiniteSubsetsOf
      <3>4. PICK t \in B : TRUE
        BY <2>3
      <3>5. Above(t) \in F
        OBVIOUS
      <3> QED
        BY <3>3, <3>5
    <2>8. PICK X \in F : \A Y \in F : <<Y, X>> \notin StrictSubsetOrdering(B)
      BY <2>7, FS_StrictSubsetOrderingWellFounded, WFMin
    <2>9. PICK t \in B : X = Above(t)
      OBVIOUS
    <2>10. PICK u \in B : Waits(t, u)
      BY <2>3
    <2>11. m(t) < m(u)
      BY <2>5, <2>10
    <2>12. u \in Above(t) /\ u \notin Above(u)
      <3>1. ~(m(u) < m(u))
        BY SMTT(60), <2>4
      <3> QED
        BY <2>11, <3>1
    <2>13. \A v \in B : m(u) < m(v) => m(t) < m(v)
      BY SMTT(60), <2>4, <2>11
    <2>14. Above(u) \subseteq Above(t) /\ Above(u) # Above(t)
      BY <2>12, <2>13
    <2>15. Above(u) \in F /\ Above(u) \in SUBSET B /\ Above(t) \in SUBSET B
      OBVIOUS
    <2> QED
      BY <2>8, <2>9, <2>14, <2>15 DEF StrictSubsetOrdering
  <1>2. IInv => NoWaitCycle
    BY <1>1 DEF NoWaitCycle
  <1> QED
    BY <1>2, Invariant, PTL

=============================================================================
