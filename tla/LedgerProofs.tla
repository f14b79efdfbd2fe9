----------------------------- MODULE LedgerProofs -----------------------------
(***************************************************************************)
(* Proofs about Ledger, and about the steps of StateLog it is made of:     *)
(* LogIsWhole, NoLitter, NothingForgotten and SkipIsJustified, for any     *)
(* units with any stamps, databases, savers and processes.                 *)
(***************************************************************************)
EXTENDS Ledger, FiniteSetTheorems, TLAPS

-----------------------------------------------------------------------------
(* What the steps of StateLog keep, for any number of savers and           *)
(* processes: the invariant behind LogIsWhole and NoLitter                 *)

Files == Inodes \cup {NoFile}

FileTypes ==
  /\ pid \in [Savers -> Processes]
  /\ inode = [n \in Inodes |-> inode[n]]
  /\ data = [s \in Savers |-> data[s]]
  /\ log \in Files
  /\ tmp \in [Processes -> Files]
  /\ fh \in [Savers -> Files]
  /\ pc \in [Savers -> {"off", "ready", "opened", "written"}]
  /\ together \in BOOLEAN /\ sharing \in BOOLEAN

\* A file is open between open and close only.
Handles == \A s \in Savers : pc[s] = "opened" <=> fh[s] # NoFile

\* As long as no two runs of one process were under way,
\* each has a process of its own,
Apart == \A s, t \in Savers : InUse(s) /\ InUse(t) /\ pid[s] = pid[t] => s = t
\* no file has two names,
OneName ==
  /\ \A p \in Processes : tmp[p] # NoFile => tmp[p] # log
  /\ \A p, q \in Processes : tmp[p] # NoFile /\ tmp[p] = tmp[q] => p = q
\* and a saver finds under its temporary name what it has put there.
Mine == \A s \in Savers :
  /\ pc[s] = "opened"  => fh[s] = tmp[pid[s]] /\ ~inode[fh[s]].whole
  /\ pc[s] = "written" => /\ tmp[pid[s]] # NoFile
                          /\ inode[tmp[pid[s]]].whole
                          /\ inode[tmp[pid[s]]].entries = data[s]

\* A temporary file belongs to a save under way, or to one that was killed.
Owned == \A p \in Processes \ orphaned :
  tmp[p] # NoFile => \E s \in Savers : pid[s] = p /\ pc[s] \in {"opened", "written"}

FileInv ==
  /\ FileTypes /\ Handles /\ Owned
  /\ ~sharing => Apart /\ OneName /\ Mine
  /\ LogIsWhole

-----------------------------------------------------------------------------
(* A new file is one *)

LEMMA ImageBound ==
  ASSUME NEW S, IsFiniteSet(S), NEW f, f = [x \in S |-> f[x]]
  PROVE  LET T == {f[x] : x \in S}
         IN  IsFiniteSet(T) /\ Cardinality(T) <= Cardinality(S)
<1> DEFINE T == {f[x] : x \in S}
<1>1. f \in Surjection(S, T)
  BY DEF Surjection
<1>. HIDE DEF T
<1>2. IsFiniteSet(T) /\ Cardinality(T) <= Cardinality(S)
  BY <1>1, FS_Surjection
<1>. QED
  BY <1>2 DEF T

\* Processes, savers and the log cannot hold every inode while one of the names is free.
LEMMA FreshIsNew ==
  ASSUME FileTypes, NEW p \in Processes, tmp[p] = NoFile
  PROVE  /\ Fresh \in Inodes
         /\ Fresh \notin Named(log, tmp) \cup Open(fh)
<1> DEFINE Held == Named(log, tmp) \cup Open(fh)
           P == {tmp[q] : q \in Processes}
           S == {fh[s] : s \in Savers}
<1>1. IsFiniteSet(P) /\ Cardinality(P) <= Cardinality(Processes)
  BY ImageBound, StateLogAssumption DEF FileTypes
<1>2. IsFiniteSet(S) /\ Cardinality(S) <= Cardinality(Savers)
  BY ImageBound, StateLogAssumption DEF FileTypes
<1>3. /\ Cardinality(Processes) \in Nat /\ Cardinality(Savers) \in Nat
      /\ Cardinality(P) \in Nat /\ Cardinality(S) \in Nat
  BY <1>1, <1>2, FS_CardinalityType, StateLogAssumption
<1>4. NoFile \in P
  OBVIOUS
<1>. HIDE DEF P, S
<1>5. IsFiniteSet(P \cup S) /\ Cardinality(P \cup S) <= Cardinality(P) + Cardinality(S)
  <2>1. IsFiniteSet(P \cap S) /\ Cardinality(P \cap S) \in Nat
    BY <1>1, FS_Intersection, FS_CardinalityType
  <2>2. /\ IsFiniteSet(P \cup S)
        /\ Cardinality(P \cup S) = Cardinality(P) + Cardinality(S) - Cardinality(P \cap S)
    BY <1>1, <1>2, FS_Union
  <2>. QED
    BY <2>1, <2>2, <1>3
<1>6. IsFiniteSet((P \cup S) \cup {log})
      /\ Cardinality((P \cup S) \cup {log}) <= Cardinality(P) + Cardinality(S) + 1
  <2> DEFINE U == P \cup S
  <2>. HIDE DEF U
  <2>1. Cardinality(U) \in Nat /\ IsFiniteSet(U)
        /\ Cardinality(U) <= Cardinality(P) + Cardinality(S)
    BY <1>5, FS_CardinalityType DEF U
  <2>2. /\ IsFiniteSet(U \cup {log})
        /\ Cardinality(U \cup {log}) = IF log \in U THEN Cardinality(U) ELSE Cardinality(U) + 1
    BY <2>1, FS_AddElement
  <2>3. Cardinality(U \cup {log}) <= Cardinality(P) + Cardinality(S) + 1
    BY <1>3, <2>1, <2>2
  <2>. QED
    BY <2>2, <2>3 DEF U
<1>7. Held = (P \cup S) \cup {log}
  BY DEF Named, Open, P, S
<1>. HIDE DEF Held
<1>8. /\ IsFiniteSet(Held) /\ Cardinality(Held) \in Nat
      /\ Cardinality(Held) <= Cardinality(Processes) + Cardinality(Savers) + 1
  BY <1>1, <1>2, <1>3, <1>6, <1>7, FS_CardinalityType
<1>9. NoFile \in Held
  BY <1>4, <1>7
<1>10. IsFiniteSet(Held \ {NoFile})
       /\ Cardinality(Held \ {NoFile}) <= Cardinality(Processes) + Cardinality(Savers)
  <2>1. /\ IsFiniteSet(Held \ {NoFile})
        /\ Cardinality(Held \ {NoFile}) =
             IF NoFile \in Held THEN Cardinality(Held) - 1 ELSE Cardinality(Held)
    BY <1>8, FS_RemoveElement
  <2>. QED
    BY <1>3, <1>8, <1>9, <2>1
<1>11. Cardinality(Inodes) = 1 + Cardinality(Processes) + Cardinality(Savers)
  BY <1>3, FS_Interval DEF Inodes
<1>12. \E n \in Inodes : n \notin Held
  <2>1. SUFFICES ASSUME Inodes \subseteq Held PROVE FALSE
    OBVIOUS
  <2>2. NoFile \notin Inodes
    BY <1>3 DEF Inodes, NoFile
  <2>3. Inodes \in SUBSET (Held \ {NoFile})
    BY <2>1, <2>2
  <2>4. Cardinality(Inodes) <= Cardinality(Held \ {NoFile})
    BY <1>10, <2>3, FS_Subset
  <2>5. Cardinality(Held \ {NoFile}) \in Nat
    BY <1>10, FS_CardinalityType
  <2>. QED
    BY <1>3, <1>10, <1>11, <2>4, <2>5
<1>. QED
  BY <1>12 DEF Fresh, Held

-----------------------------------------------------------------------------
(* The steps *)

LEMMA LoadKeeps ==
  ASSUME FileInv, NEW s \in Savers, Load(s)
  PROVE  FileInv'
<1>. USE DEF FileInv, Load, InUse, past
<1>1. FileTypes'
  BY DEF FileTypes
<1>2. Handles' /\ Owned'
  BY DEF FileTypes, Handles, Owned
<1>3. ~sharing' => Apart' /\ OneName' /\ Mine'
  <2>1. ASSUME ~sharing' PROVE Apart'
    <3>1. Apart /\ \A t \in Savers : InUse(t) => pid[t] # pid[s]
      BY <2>1
    <3>2. pid' = pid /\ \A t \in Savers : t # s => pc'[t] = pc[t]
      BY DEF FileTypes
    <3>. QED
      BY <3>1, <3>2 DEF Apart
  <2>2. ~sharing' => OneName'
    BY DEF OneName
  <2>3. ~sharing' => Mine'
    BY DEF FileTypes, Mine
  <2>. QED
    BY <2>1, <2>2, <2>3
<1>4. LogIsWhole'
  BY DEF LogIsWhole
<1>. QED
  BY <1>1, <1>2, <1>3, <1>4

LEMMA OpenKeeps ==
  ASSUME FileInv, NEW s \in Savers, NEW e, OpenTmp(s, e)
  PROVE  FileInv'
<1> DEFINE p == pid[s]
           n == IF tmp[p] = NoFile THEN Fresh ELSE tmp[p]
<1>1. /\ FileTypes /\ Handles /\ Owned
      /\ p \in Processes /\ pc[s] = "ready" /\ pc' = [pc EXCEPT ![s] = "opened"]
      /\ data' = [data EXCEPT ![s] = e]
      /\ fh' = [fh EXCEPT ![s] = n] /\ tmp' = [tmp EXCEPT ![p] = n]
      /\ inode' = [inode EXCEPT ![n] = Empty]
      /\ UNCHANGED <<pid, log, together, sharing, orphaned>>
  BY DEF FileInv, FileTypes, OpenTmp, past
<1>2. /\ n \in Inodes
      /\ tmp[p] = NoFile => n \notin Named(log, tmp) \cup Open(fh)
      /\ tmp[p] # NoFile => n = tmp[p]
  BY <1>1, FreshIsNew DEF FileTypes, Files
<1>. HIDE DEF n
<1>3. n # NoFile
  BY <1>2, StateLogAssumption, FS_CardinalityType DEF Inodes, NoFile
<1>4. inode'[n] = Empty /\ \A k \in Inodes : k # n => inode'[k] = inode[k]
  BY <1>1, <1>2 DEF FileTypes
<1>5. FileTypes'
  BY <1>1, <1>2 DEF FileTypes, Files
<1>6. Handles'
  BY <1>1, <1>3 DEF FileTypes, Handles
<1>7. Owned'
  BY <1>1 DEF FileTypes, Owned
<1>8. ASSUME ~sharing' PROVE Apart' /\ OneName' /\ Mine' /\ LogIsWhole'
  <2>1. Apart /\ OneName /\ Mine /\ LogIsWhole /\ ~sharing
    BY <1>1, <1>8 DEF FileInv
  <2>2. Apart'
    BY <1>1, <2>1 DEF FileTypes, Apart, InUse
  <2>3. \A q \in Processes : q # p => tmp[q] # n /\ tmp'[q] = tmp[q]
    BY <1>1, <1>2, <1>3, <2>1 DEF FileTypes, OneName, Named
  <2>4. log # n /\ log' = log /\ tmp'[p] = n
    BY <1>1, <1>2, <1>3, <2>1 DEF FileTypes, OneName, Named
  <2>5. OneName'
    BY <2>1, <2>3, <2>4 DEF OneName
  <2>6. ASSUME NEW t \in Savers, t # s, InUse(t)
        PROVE  pid[t] \in Processes /\ pid[t] # p
    BY <1>1, <2>1, <2>6 DEF FileTypes, Apart, InUse
  <2>7. ASSUME NEW t \in Savers
        PROVE  /\ pc'[t] = "opened"  => fh'[t] = tmp'[pid'[t]] /\ ~inode'[fh'[t]].whole
               /\ pc'[t] = "written" => /\ tmp'[pid'[t]] # NoFile
                                       /\ inode'[tmp'[pid'[t]]].whole
                                       /\ inode'[tmp'[pid'[t]]].entries = data'[t]
    <3>1. CASE t = s
      BY <1>1, <1>4, <2>4, <3>1 DEF FileTypes, Empty
    <3>2. CASE t # s /\ InUse(t)
      <4>1. /\ pc'[t] = pc[t] /\ fh'[t] = fh[t] /\ data'[t] = data[t] /\ pid'[t] = pid[t]
            /\ tmp'[pid[t]] = tmp[pid[t]] /\ tmp[pid[t]] # n /\ tmp[pid[t]] \in Files
        BY <1>1, <2>3, <2>6, <3>2 DEF FileTypes
      <4>2. tmp[pid[t]] # NoFile => inode'[tmp[pid[t]]] = inode[tmp[pid[t]]]
        BY <1>4, <4>1 DEF Files
      <4>. QED
        BY <1>1, <2>1, <4>1, <4>2 DEF Mine, Handles
    <3>3. CASE t # s /\ ~InUse(t)
      BY <1>1, <3>3 DEF FileTypes, InUse
    <3>. QED
      BY <3>1, <3>2, <3>3
  <2>8. Mine'
    BY <2>7 DEF Mine
  <2>9. LogIsWhole'
    BY <1>1, <1>4, <2>1, <2>4 DEF FileTypes, Files, LogIsWhole
  <2>. QED
    BY <2>2, <2>5, <2>8, <2>9
<1>. QED
  BY <1>5, <1>6, <1>7, <1>8 DEF FileInv, LogIsWhole

LEMMA WriteKeeps ==
  ASSUME FileInv, NEW s \in Savers, Write(s)
  PROVE  FileInv'
<1> DEFINE n == fh[s]
           kept == Named(log, tmp) \cup Open(fh')
<1>1. /\ FileTypes /\ Handles /\ Owned
      /\ pc[s] = "opened" /\ pc' = [pc EXCEPT ![s] = "written"]
      /\ fh' = [fh EXCEPT ![s] = NoFile]
      /\ UNCHANGED <<pid, log, tmp, data, together, sharing, orphaned>>
      /\ n \in Inodes
  BY DEF FileInv, FileTypes, Handles, Write, past, Files
<1>2. PICK holds \in {[whole |-> TRUE, entries |-> data[s]]} \cup
                     (IF inode[n].whole THEN {Empty} ELSE {}) :
        inode' = Freed([inode EXCEPT ![n] = holds], kept)
  BY DEF Write
<1>3. /\ n \in kept => inode'[n] = holds
      /\ \A k \in Inodes \cap kept : k # n => inode'[k] = inode[k]
  BY <1>1, <1>2 DEF Freed, FileTypes
<1>4. inode' = [k \in Inodes |-> inode'[k]]
  BY <1>2 DEF Freed
<1>5. /\ \A p \in Processes : tmp[p] \in kept
      /\ log \in kept
      /\ \A t \in Savers : fh'[t] \in kept
  BY DEF Named, Open
<1>. HIDE DEF kept
<1>6. FileTypes'
  BY <1>1, <1>4 DEF FileTypes, Files
<1>7. Handles'
  BY <1>1 DEF FileTypes, Handles
<1>8. Owned'
  BY <1>1 DEF FileTypes, Owned
<1>9. ASSUME ~sharing' PROVE Apart' /\ OneName' /\ Mine' /\ LogIsWhole'
  <2>1. Apart /\ OneName /\ Mine /\ LogIsWhole /\ ~sharing
    BY <1>1, <1>9 DEF FileInv
  <2>2. pid[s] \in Processes /\ n = tmp[pid[s]] /\ ~inode[n].whole
    BY <1>1, <2>1 DEF FileTypes, Mine
  <2>3. inode'[n] = [whole |-> TRUE, entries |-> data[s]]
    BY <1>2, <1>3, <1>5, <2>2
  <2>4. Apart'
    BY <1>1, <2>1 DEF FileTypes, Apart, InUse
  <2>5. OneName'
    BY <1>1, <2>1 DEF OneName
  <2>6. ASSUME NEW t \in Savers
        PROVE  /\ pc'[t] = "opened"  => fh'[t] = tmp'[pid'[t]] /\ ~inode'[fh'[t]].whole
               /\ pc'[t] = "written" => /\ tmp'[pid'[t]] # NoFile
                                       /\ inode'[tmp'[pid'[t]]].whole
                                       /\ inode'[tmp'[pid'[t]]].entries = data'[t]
    <3>1. CASE t = s
      BY <1>1, <2>2, <2>3, <3>1, StateLogAssumption, FS_CardinalityType
         DEF FileTypes, Inodes, NoFile
    <3>2. CASE t # s /\ InUse(t)
      <4>1. /\ pc'[t] = pc[t] /\ fh'[t] = fh[t] /\ data'[t] = data[t] /\ pid'[t] = pid[t]
            /\ tmp' = tmp /\ tmp[pid[t]] \in Files /\ pid[t] \in Processes /\ pid[t] # pid[s]
        BY <1>1, <2>1, <3>2 DEF FileTypes, Apart, InUse
      <4>2. tmp[pid[t]] # NoFile => inode'[tmp[pid[t]]] = inode[tmp[pid[t]]]
        BY <1>3, <1>5, <2>1, <2>2, <4>1 DEF OneName, Files
      <4>. QED
        BY <1>1, <2>1, <4>1, <4>2 DEF Mine, Handles
    <3>3. CASE t # s /\ ~InUse(t)
      BY <1>1, <3>3 DEF FileTypes, InUse
    <3>. QED
      BY <3>1, <3>2, <3>3
  <2>7. Mine'
    BY <2>6 DEF Mine
  <2>8. LogIsWhole'
    <3>1. log # NoFile => log \in Inodes /\ log # n
      BY <1>1, <2>1, <2>2 DEF FileTypes, Files, OneName
    <3>. QED
      BY <1>1, <1>3, <1>5, <2>1, <3>1 DEF LogIsWhole
  <2>. QED
    BY <2>4, <2>5, <2>7, <2>8
<1>. QED
  BY <1>6, <1>7, <1>8, <1>9 DEF FileInv, LogIsWhole

LEMMA ReplaceKeeps ==
  ASSUME FileInv, NEW s \in Savers, Replace(s)
  PROVE  FileInv'
<1> DEFINE p == pid[s]
           n == tmp[p]
           kept == Named(log', tmp') \cup Open(fh)
<1>1. /\ FileTypes /\ Handles /\ Owned
      /\ pc[s] = "written" /\ pc' = [pc EXCEPT ![s] = "ready"]
      /\ p \in Processes /\ n # NoFile /\ n \in Inodes
      /\ log' = n /\ tmp' = [tmp EXCEPT ![p] = NoFile]
      /\ inode' = Freed(inode, kept)
      /\ orphaned' = orphaned \ {p}
      /\ UNCHANGED <<pid, data, fh, together, sharing>>
  BY DEF FileInv, FileTypes, Replace, Files
<1>2. /\ \A k \in Inodes \cap kept : inode'[k] = inode[k]
      /\ inode' = [k \in Inodes |-> inode'[k]]
  BY <1>1 DEF Freed
<1>3. /\ \A q \in Processes : tmp'[q] \in kept
      /\ log' \in kept
      /\ \A t \in Savers : fh[t] \in kept
  BY DEF Named, Open
<1>. HIDE DEF kept
<1>4. FileTypes'
  BY <1>1, <1>2 DEF FileTypes, Files
<1>5. Handles'
  BY <1>1 DEF FileTypes, Handles
<1>6. Owned'
  <2>1. ASSUME NEW q \in Processes \ orphaned', tmp'[q] # NoFile
        PROVE  \E t \in Savers : pid'[t] = q /\ pc'[t] \in {"opened", "written"}
    <3>1. q # p /\ tmp[q] # NoFile /\ q \in Processes \ orphaned
      BY <1>1, <2>1 DEF FileTypes
    <3>2. PICK t \in Savers : pid[t] = q /\ pc[t] \in {"opened", "written"}
      BY <1>1, <3>1 DEF Owned
    <3>. QED
      BY <1>1, <3>1, <3>2 DEF FileTypes
  <2>. QED
    BY <2>1 DEF Owned
<1>7. ASSUME ~sharing' PROVE Apart' /\ OneName' /\ Mine' /\ LogIsWhole'
  <2>1. Apart /\ OneName /\ Mine /\ LogIsWhole /\ ~sharing
    BY <1>1, <1>7 DEF FileInv
  <2>2. Apart'
    BY <1>1, <2>1 DEF FileTypes, Apart, InUse
  <2>3. OneName'
    BY <1>1, <2>1 DEF FileTypes, OneName
  <2>4. ASSUME NEW t \in Savers
        PROVE  /\ pc'[t] = "opened"  => fh'[t] = tmp'[pid'[t]] /\ ~inode'[fh'[t]].whole
               /\ pc'[t] = "written" => /\ tmp'[pid'[t]] # NoFile
                                       /\ inode'[tmp'[pid'[t]]].whole
                                       /\ inode'[tmp'[pid'[t]]].entries = data'[t]
    <3>1. CASE t = s
      BY <1>1, <3>1 DEF FileTypes
    <3>2. CASE t # s /\ InUse(t)
      <4>1. /\ pc'[t] = pc[t] /\ fh'[t] = fh[t] /\ data'[t] = data[t] /\ pid'[t] = pid[t]
            /\ pid[t] \in Processes /\ pid[t] # p /\ tmp'[pid[t]] = tmp[pid[t]]
            /\ tmp[pid[t]] \in Files
        BY <1>1, <2>1, <3>2 DEF FileTypes, Apart, InUse
      <4>2. tmp[pid[t]] # NoFile => inode'[tmp[pid[t]]] = inode[tmp[pid[t]]]
        BY <1>2, <1>3, <4>1 DEF Files
      <4>. QED
        BY <1>1, <2>1, <4>1, <4>2 DEF Mine, Handles
    <3>3. CASE t # s /\ ~InUse(t)
      BY <1>1, <3>3 DEF FileTypes, InUse
    <3>. QED
      BY <3>1, <3>2, <3>3
  <2>5. Mine'
    BY <2>4 DEF Mine
  <2>6. LogIsWhole'
    BY <1>1, <1>2, <1>3, <2>1 DEF LogIsWhole, Mine
  <2>. QED
    BY <2>2, <2>3, <2>5, <2>6
<1>. QED
  BY <1>4, <1>5, <1>6, <1>7 DEF FileInv, LogIsWhole

\* A run that ends at rest changes no file.
LEMMA EndKeeps ==
  ASSUME FileInv, NEW s \in Savers, Leave(s) \/ ReplaceFails(s)
  PROVE  FileInv'
<1>1. /\ FileTypes /\ Handles /\ Owned
      /\ pc[s] \in {"ready", "written"} /\ pc' = [pc EXCEPT ![s] = "off"]
      /\ pc[s] = "written" => tmp[pid[s]] = NoFile
      /\ data' = [data EXCEPT ![s] = Blank]
      /\ UNCHANGED <<pid, inode, log, tmp, fh, together, sharing, orphaned>>
  BY DEF FileInv, FileTypes, Leave, ReplaceFails, past
<1>2. FileTypes'
  BY <1>1 DEF FileTypes
<1>3. Handles' /\ Owned'
  BY <1>1 DEF FileTypes, Handles, Owned
<1>4. ~sharing' => Apart' /\ OneName' /\ Mine'
  <2>1. ASSUME ~sharing' PROVE Apart /\ OneName /\ Mine
    BY <1>1, <2>1 DEF FileInv
  <2>2. ~sharing' => Apart'
    BY <1>1, <2>1 DEF FileTypes, Apart, InUse
  <2>3. ~sharing' => OneName'
    BY <1>1, <2>1 DEF OneName
  <2>4. ~sharing' => Mine'
    BY <1>1, <2>1 DEF FileTypes, Mine
  <2>. QED
    BY <2>2, <2>3, <2>4
<1>5. LogIsWhole'
  BY <1>1 DEF FileInv, LogIsWhole
<1>. QED
  BY <1>2, <1>3, <1>4, <1>5 DEF FileInv

LEMMA KillKeeps ==
  ASSUME FileInv, NEW ps, Kill(ps)
  PROVE  FileInv'
<1> DEFINE dead(t) == pid[t] \in ps
           kept == Named(log, tmp) \cup Open(fh')
<1>1. /\ FileTypes /\ Handles /\ Owned
      /\ pc' = [t \in Savers |-> IF dead(t) THEN "off" ELSE pc[t]]
      /\ data' = [t \in Savers |-> IF dead(t) THEN Blank ELSE data[t]]
      /\ fh' = [t \in Savers |-> IF dead(t) THEN NoFile ELSE fh[t]]
      /\ inode' = Freed(inode, kept)
      /\ orphaned' = orphaned \cup {p \in ps : tmp[p] # NoFile}
      /\ UNCHANGED <<pid, log, tmp, together, sharing>>
  BY DEF FileInv, Kill
<1>2. /\ \A k \in Inodes \cap kept : inode'[k] = inode[k]
      /\ inode' = [k \in Inodes |-> inode'[k]]
  BY <1>1 DEF Freed
<1>3. /\ \A q \in Processes : tmp[q] \in kept
      /\ log \in kept
      /\ \A t \in Savers : fh'[t] \in kept
  BY DEF Named, Open
<1>. HIDE DEF kept
<1>4. FileTypes'
  <2>1. fh' \in [Savers -> Files] /\ data' = [t \in Savers |-> data'[t]]
    BY <1>1 DEF FileTypes, Files
  <2>2. pc' \in [Savers -> {"off", "ready", "opened", "written"}]
    BY <1>1 DEF FileTypes
  <2>. QED
    BY <1>1, <1>2, <2>1, <2>2 DEF FileTypes
<1>5. Handles'
  BY <1>1 DEF FileTypes, Handles
<1>6. Owned'
  <2>1. ASSUME NEW q \in Processes \ orphaned', tmp'[q] # NoFile
        PROVE  \E t \in Savers : pid'[t] = q /\ pc'[t] \in {"opened", "written"}
    <3>1. q \notin ps /\ tmp[q] # NoFile /\ q \in Processes \ orphaned
      BY <1>1, <2>1
    <3>2. PICK t \in Savers : pid[t] = q /\ pc[t] \in {"opened", "written"}
      BY <1>1, <3>1 DEF Owned
    <3>. QED
      BY <1>1, <3>1, <3>2
  <2>. QED
    BY <2>1 DEF Owned
<1>7. ASSUME ~sharing' PROVE Apart' /\ OneName' /\ Mine' /\ LogIsWhole'
  <2>1. Apart /\ OneName /\ Mine /\ LogIsWhole /\ ~sharing
    BY <1>1, <1>7 DEF FileInv
  <2>2. Apart'
    BY <1>1, <2>1 DEF Apart, InUse
  <2>3. OneName'
    BY <1>1, <2>1 DEF OneName
  <2>4. ASSUME NEW t \in Savers
        PROVE  /\ pc'[t] = "opened"  => fh'[t] = tmp'[pid'[t]] /\ ~inode'[fh'[t]].whole
               /\ pc'[t] = "written" => /\ tmp'[pid'[t]] # NoFile
                                       /\ inode'[tmp'[pid'[t]]].whole
                                       /\ inode'[tmp'[pid'[t]]].entries = data'[t]
    <3>1. CASE dead(t)
      BY <1>1, <3>1
    <3>2. CASE ~dead(t)
      <4>1. /\ pc'[t] = pc[t] /\ fh'[t] = fh[t] /\ data'[t] = data[t] /\ pid'[t] = pid[t]
            /\ pid[t] \in Processes /\ tmp' = tmp /\ tmp[pid[t]] \in Files
        BY <1>1, <3>2 DEF FileTypes
      <4>2. tmp[pid[t]] # NoFile => inode'[tmp[pid[t]]] = inode[tmp[pid[t]]]
        BY <1>2, <1>3, <4>1 DEF Files
      <4>. QED
        BY <1>1, <2>1, <4>1, <4>2 DEF Mine, Handles
    <3>. QED
      BY <3>1, <3>2
  <2>5. Mine'
    BY <2>4 DEF Mine
  <2>6. LogIsWhole'
    BY <1>1, <1>2, <1>3, <2>1 DEF LogIsWhole, FileTypes, Files
  <2>. QED
    BY <2>2, <2>3, <2>5, <2>6
<1>. QED
  BY <1>4, <1>5, <1>6, <1>7 DEF FileInv, LogIsWhole

\* After an outage nothing is open, and the log is a whole one or there is none.
LEMMA OutageKeeps ==
  ASSUME FileInv, Outage
  PROVE  FileInv'
<1>1. /\ FileTypes
      /\ pc' = [s \in Savers |-> "off"] /\ data' = [s \in Savers |-> Blank]
      /\ fh' = [s \in Savers |-> NoFile]
      /\ orphaned' = {p \in Processes : tmp[p] # NoFile}
      /\ UNCHANGED <<pid, tmp, together, sharing>>
  BY DEF FileInv, Outage
<1>2. PICK e : /\ log' = IF e = Blank THEN NoFile ELSE log
               /\ inode' = [n \in Inodes |-> IF n = log' THEN [whole |-> TRUE, entries |-> e]
                                                       ELSE Empty]
  BY DEF Outage
<1>3. FileTypes'
  BY <1>1, <1>2 DEF FileTypes, Files
<1>4. Handles' /\ Owned' /\ Apart' /\ Mine'
  BY <1>1 DEF Handles, Owned, Apart, Mine, InUse
<1>5. ~sharing' => OneName'
  BY <1>1, <1>2 DEF FileInv, OneName
<1>6. LogIsWhole'
  BY <1>1, <1>2 DEF LogIsWhole, FileTypes, Files
<1>. QED
  BY <1>3, <1>4, <1>5, <1>6 DEF FileInv

-----------------------------------------------------------------------------
(* The start, and what the invariant says *)

LEMMA InitFiles ==
  ASSUME NEW e, Init(e)
  PROVE  FileInv
<1>1. 1 \in Inodes
  BY StateLogAssumption, FS_CardinalityType DEF Inodes
<1>2. FileTypes
  BY <1>1 DEF Init, FileTypes, Files
<1>3. Handles /\ Owned
  BY DEF Init, Handles, Owned
<1>4. Apart /\ OneName /\ Mine
  BY DEF Init, Apart, OneName, Mine, InUse
<1>5. LogIsWhole
  BY <1>1 DEF Init, LogIsWhole
<1>. QED
  BY <1>2, <1>3, <1>4, <1>5 DEF FileInv

LEMMA LitterFree ==
  ASSUME FileInv
  PROVE  NoLitter
BY DEF FileInv, Owned, NoLitter

-----------------------------------------------------------------------------
(* What the steps of Ledger keep: the invariant behind SkipIsJustified *)

\* Every copy of the log there is: in a file, in a saver, or one that was replaced and that a
\* power failure may bring back.
Copies == {data[s] : s \in Savers} \cup {inode[n].entries : n \in Inodes} \cup earlier

Entries == {Unsettled} \cup {Completed(d, v) : d \in Dbs, v \in Nat}
Logs    == UNION {[D -> Entries] : D \in SUBSET Units}
Stages  == {"planning", "skipped", "handed", "read", "committed", "recorded", "over"}
Jobs    == [unit : Units, db : Dbs, stage : Stages, plan : Nat, read : Nat]

LedgerTypes ==
  /\ disk \in [Units -> Nat]
  /\ table \in [Dbs -> [Units -> Nat \cup {Lost}]]
  /\ crowded \subseteq Units
  /\ job \in [Savers -> {NoJob} \cup Jobs]
  /\ \A s \in Savers : InUse(s) <=> job[s] \in Jobs
  /\ Copies \subseteq Logs

TableOld == \A d \in Dbs, u \in Units : table[d][u] <= disk[u]

\* Two runs at one unit for one database were noticed.
Alone == \A s, t \in Savers :
  job[s] \in Jobs /\ job[t] \in Jobs /\ job[s].unit = job[t].unit /\ job[s].db = job[t].db =>
    s = t \/ job[s].unit \in crowded

\* Copy c has version v of u as completed for d.
Says(c, u, d, v) == u \in DOMAIN c /\ c[u] = Completed(d, v)

\* What any copy has as completed, however old the copy is, is in the table, or a later
\* version is, or the power failure took it.
Truthful(c) == \A u \in Units, d \in Dbs, v \in Nat :
  Says(c, u, d, v) => /\ v <= disk[u]
                      /\ u \in crowded \/ table[d][u] = Lost \/ v <= table[d][u]

\* No copy has a later version completed than the one that j has read.
Ahead(j) == \A c \in Copies : \A v \in Nat : Says(c, j.unit, j.db, v) => v <= j.read

JobOK(j) ==
  /\ j.stage \in {"handed", "read", "committed", "recorded"} => j.plan <= disk[j.unit]
  /\ j.stage = "read" => /\ j.plan <= j.read /\ j.read <= disk[j.unit]
                         /\ j.unit \in crowded \/ Ahead(j)
  /\ j.stage \in {"committed", "recorded"} =>
       j.unit \in crowded \/ j.plan <= table[j.db][j.unit]

LedgerInv ==
  /\ LedgerTypes /\ TableOld /\ Alone
  /\ \A c \in Copies : Truthful(c)
  /\ \A s \in Savers : job[s] \in Jobs => JobOK(job[s])

IInv == FileInv /\ LedgerInv

-----------------------------------------------------------------------------
(* The copies a step of StateLog makes *)

LEMMA LoadCopies ==
  ASSUME FileTypes, NEW s \in Savers, Load(s)
  PROVE  Copies' \subseteq Copies \cup {Blank}
<1>1. Loaded \in Copies \cup {Blank}
  BY DEF Loaded, Copies, FileTypes, Files
<1>2. inode' = inode /\ data' = [data EXCEPT ![s] = Loaded] /\ data = [t \in Savers |-> data[t]]
      /\ earlier' = earlier
  BY DEF Load, FileTypes
<1>3. \A t \in Savers : data'[t] \in Copies \cup {Blank}
  BY <1>1, <1>2 DEF Copies
<1>. QED
  BY <1>2, <1>3 DEF Copies

LEMMA OpenCopies ==
  ASSUME FileTypes, NEW s \in Savers, NEW e, OpenTmp(s, e)
  PROVE  Copies' \subseteq Copies \cup {Blank, e}
<1>1. PICK n : inode' = [inode EXCEPT ![n] = Empty]
  BY DEF OpenTmp
<1>2. data' = [data EXCEPT ![s] = e] /\ data = [t \in Savers |-> data[t]] /\ earlier' = earlier
  BY DEF OpenTmp, FileTypes, past
<1>3. \A t \in Savers : data'[t] \in Copies \cup {Blank, e}
  BY <1>2 DEF Copies
<1>4. \A k \in Inodes : inode'[k] = inode[k] \/ inode'[k] = Empty
  BY <1>1 DEF FileTypes
<1>5. \A k \in Inodes : inode'[k].entries \in Copies \cup {Blank, e}
  BY <1>4 DEF Copies, Empty
<1>. QED
  BY <1>2, <1>3, <1>5 DEF Copies

LEMMA SaveCopies ==
  ASSUME FileTypes, NEW s \in Savers, Write(s) \/ Replace(s)
  PROVE  Copies' \subseteq Copies \cup {Blank}
<1>1. data' = data
  BY DEF Write, Replace
<1>2. ASSUME NEW k \in Inodes PROVE inode'[k].entries \in Copies \cup {Blank}
  <2>1. CASE Replace(s)
    BY <2>1 DEF Replace, Freed, Copies, Empty
  <2>2. CASE Write(s)
    <3>1. PICK holds \in {[whole |-> TRUE, entries |-> data[s]]} \cup {Empty} :
            \E kept : inode' = Freed([inode EXCEPT ![fh[s]] = holds], kept)
      BY <2>2 DEF Write
    <3>2. inode'[k] = inode[k] \/ inode'[k] = holds \/ inode'[k] = Empty
      BY <3>1 DEF Freed, FileTypes
    <3>3. holds.entries = data[s] \/ holds.entries = Blank
      BY <3>1 DEF Empty
    <3>. QED
      BY <3>2, <3>3 DEF Copies, Empty
  <2>. QED
    BY <2>1, <2>2
<1>3. earlier' \subseteq Copies \cup {Blank}
  <2>1. Loaded \in Copies \cup {Blank}
    BY DEF Loaded, Copies, FileTypes, Files
  <2>2. earlier' \subseteq earlier \cup {Loaded}
    BY DEF Write, Replace, past
  <2>. QED
    BY <2>1, <2>2 DEF Copies
<1>. QED
  BY <1>1, <1>2, <1>3 DEF Copies

LEMMA EndCopies ==
  ASSUME FileTypes, NEW s \in Savers, Leave(s) \/ ReplaceFails(s)
  PROVE  Copies' \subseteq Copies \cup {Blank}
<1>1. inode' = inode /\ data' = [data EXCEPT ![s] = Blank] /\ data = [t \in Savers |-> data[t]]
      /\ earlier' = earlier
  BY DEF Leave, ReplaceFails, FileTypes, past
<1>2. \A t \in Savers : data'[t] \in Copies \cup {Blank}
  BY <1>1 DEF Copies
<1>. QED
  BY <1>1, <1>2 DEF Copies

LEMMA KillCopies ==
  ASSUME FileTypes, NEW ps, Kill(ps)
  PROVE  Copies' \subseteq Copies \cup {Blank}
<1>1. \A t \in Savers : data'[t] \in Copies \cup {Blank}
  BY DEF Kill, Copies
<1>2. \A k \in Inodes : inode'[k].entries \in Copies \cup {Blank}
  BY DEF Kill, Freed, Copies, Empty
<1>3. earlier' = earlier
  BY DEF Kill
<1>. QED
  BY <1>1, <1>2, <1>3 DEF Copies

\* An outage brings back what was a copy.
LEMMA OutageCopies ==
  ASSUME FileTypes, Outage
  PROVE  Copies' \subseteq Copies \cup {Blank}
<1>1. Loaded \in Copies \cup {Blank}
  BY DEF Loaded, Copies, FileTypes, Files
<1>2. PICK e \in earlier \cup {Loaded} :
        inode' = [n \in Inodes |-> IF n = log' THEN [whole |-> TRUE, entries |-> e] ELSE Empty]
  BY DEF Outage
<1>3. \A n \in Inodes : inode'[n].entries \in Copies \cup {Blank}
  BY <1>1, <1>2 DEF Copies, Empty
<1>4. earlier' = {} /\ \A t \in Savers : data'[t] = Blank
  BY DEF Outage
<1>. QED
  BY <1>3, <1>4 DEF Copies

-----------------------------------------------------------------------------
(* The runs *)

LEMMA BlankLog == Blank \in Logs /\ \A u, d, v : ~Says(Blank, u, d, v)
  BY DEF Blank, Logs, Says

LEMMA SetIsLog ==
  ASSUME LedgerTypes, NEW s \in Savers, job[s] \in Jobs, NEW e \in Entries
  PROVE  Set(s, e) \in Logs
<1>1. data[s] \in Logs /\ job[s].unit \in Units
  BY DEF LedgerTypes, Copies, Jobs
<1>2. PICK D \in SUBSET Units : data[s] \in [D -> Entries]
  BY <1>1 DEF Logs
<1>3. D \cup {job[s].unit} \in SUBSET Units
  BY <1>1
<1>4. Set(s, e) \in [D \cup {job[s].unit} -> Entries]
  BY <1>2 DEF Set
<1>. QED
  BY <1>3, <1>4 DEF Logs

\* What is set to an unfinished state says nothing new.
LEMMA SetUnsettled ==
  ASSUME LedgerTypes, NEW s \in Savers, job[s] \in Jobs
  PROVE  /\ Set(s, Unsettled) \in Logs
         /\ \A u, d, v : Says(Set(s, Unsettled), u, d, v) => Says(data[s], u, d, v)
<1>1. Unsettled \in Entries /\ \A d, v : Unsettled # Completed(d, v)
  BY DEF Entries, Unsettled, Completed
<1>2. Set(s, Unsettled) \in Logs
  BY <1>1, SetIsLog
<1>. QED
  BY <1>1, <1>2 DEF Set, Says

\* After the step no copy says what none said before.
NothingNew == \A c \in Copies' :
  c \in Logs /\ \A u, d, v : Says(c, u, d, v) => \E b \in Copies : Says(b, u, d, v)

\* A step that adds no copy with anything new, and leaves disk, table and crowded: the
\* jobs it changes it leaves for the unit and the database they are for, and in order.
LEMMA Quiet ==
  ASSUME LedgerInv,
         NothingNew,
         UNCHANGED <<disk, table, crowded>>,
         job' \in [Savers -> {NoJob} \cup Jobs],
         \A s \in Savers : InUse(s)' <=> job'[s] \in Jobs,
         \A s \in Savers : job'[s] \in Jobs =>
           /\ job[s] \in Jobs /\ job'[s].unit = job[s].unit /\ job'[s].db = job[s].db
           /\ job'[s] = job[s] \/ JobOK(job[s])'
  PROVE  LedgerInv'
<1>1. LedgerTypes'
  BY DEF LedgerInv, LedgerTypes, NothingNew
<1>2. TableOld'
  BY DEF LedgerInv, TableOld
<1>3. Alone'
  BY DEF LedgerInv, Alone
<1>4. \A c \in Copies' : Truthful(c)'
  BY DEF LedgerInv, Truthful, NothingNew
<1>5. ASSUME NEW s \in Savers, job'[s] \in Jobs, job'[s] = job[s]
      PROVE  JobOK(job[s])'
  <2>1. JobOK(job[s])
    BY <1>5 DEF LedgerInv
  <2>2. job[s].unit \in Units /\ job[s].db \in Dbs
    BY <1>5 DEF Jobs
  <2>3. Ahead(job[s]) => Ahead(job[s])'
    BY <1>5 DEF Ahead, NothingNew
  <2>. QED
    BY <1>5, <2>1, <2>3 DEF JobOK
<1>. QED
  BY <1>1, <1>2, <1>3, <1>4, <1>5 DEF LedgerInv

LEMMA OldIsNotNew ==
  ASSUME LedgerTypes, Copies' \subseteq Copies \cup {Blank}
  PROVE  NothingNew
BY BlankLog DEF LedgerTypes, NothingNew

\* So are steps that open the log to save what says nothing new.
LEMMA OpenIsNotNew ==
  ASSUME FileTypes, LedgerTypes, NEW s \in Savers, NEW e \in Logs, OpenTmp(s, e),
         \A u, d, v : Says(e, u, d, v) => Says(data[s], u, d, v)
  PROVE  NothingNew
<1>1. Copies' \subseteq Copies \cup {Blank, e} /\ data[s] \in Copies
  BY OpenCopies DEF Copies
<1>. QED
  BY <1>1, BlankLog DEF LedgerTypes, NothingNew

\* Who is in use after a save was begun, went on or ended in the next one's beginning.
LEMMA InUseKept ==
  ASSUME FileTypes, NEW s \in Savers,
         \/ \E e : OpenTmp(s, e)
         \/ Write(s) \/ Replace(s)
  PROVE  InUse(s) /\ \A t \in Savers : InUse(t)' <=> InUse(t)
BY DEF FileTypes, OpenTmp, Write, Replace, InUse

LEMMA StartKeeps ==
  ASSUME IInv, NEW s \in Savers, NEW u \in Units, NEW d \in Dbs, Start(s, u, d)
  PROVE  LedgerInv'
<1>1. FileTypes /\ LedgerInv /\ LedgerTypes /\ Load(s)
  BY DEF IInv, FileInv, LedgerInv, Start
<1>2. /\ job' = [job EXCEPT ![s] = Job(u, d)]
      /\ crowded' = crowded \cup
           {v \in {u} : \E t \in Savers : InUse(t) /\ job[t].unit = u /\ job[t].db = d}
      /\ UNCHANGED <<disk, table>>
  BY DEF Start
<1>3. NothingNew
  BY <1>1, LoadCopies, OldIsNotNew
<1>4. Job(u, d) \in Jobs
  BY DEF Job, Jobs, Stages, None
<1>5. ~InUse(s) /\ \A t \in Savers : InUse(t)' <=> t = s \/ InUse(t)
  BY <1>1 DEF Load, InUse, FileTypes
<1>6. crowded \subseteq crowded' /\ crowded' \subseteq Units
  BY <1>1, <1>2 DEF LedgerTypes
<1>7. LedgerTypes'
  BY <1>1, <1>2, <1>3, <1>4, <1>5, <1>6 DEF LedgerTypes, NothingNew
<1>8. TableOld'
  BY <1>1, <1>2 DEF LedgerInv, TableOld
<1>9. Alone'
  <2>1. ASSUME NEW t \in Savers, t # s, job'[t] \in Jobs, job'[t].unit = u, job'[t].db = d
        PROVE  u \in crowded'
    <3>1. InUse(t) /\ job[t].unit = u /\ job[t].db = d
      BY <1>1, <1>2, <2>1 DEF LedgerTypes
    <3>. QED
      BY <1>2, <3>1
  <2>2. job'[s].unit = u /\ job'[s].db = d
    BY <1>1, <1>2 DEF LedgerTypes, Job
  <2>3. \A t \in Savers : t # s => job'[t] = job[t]
    BY <1>1, <1>2 DEF LedgerTypes
  <2>4. Alone
    BY <1>1 DEF LedgerInv
  <2>. QED
    BY <1>6, <2>1, <2>2, <2>3, <2>4 DEF Alone
<1>10. \A c \in Copies' : Truthful(c)'
  BY <1>1, <1>2, <1>3, <1>6 DEF LedgerInv, NothingNew, Truthful
<1>11. ASSUME NEW t \in Savers, job'[t] \in Jobs PROVE JobOK(job[t])'
  <2>1. CASE t = s
    <3>1. job'[t].stage = "planning"
      BY <1>1, <1>2, <2>1 DEF LedgerTypes, Job
    <3>. QED
      BY <3>1 DEF JobOK
  <2>2. CASE t # s
    <3>1. job'[t] = job[t] /\ JobOK(job[t])
      BY <1>1, <1>2, <1>11, <2>2 DEF LedgerInv, LedgerTypes
    <3>2. job[t].unit \in Units /\ job[t].db \in Dbs
      BY <1>11, <3>1 DEF Jobs
    <3>3. Ahead(job[t]) => Ahead(job[t])'
      BY <1>3, <3>1, <3>2 DEF Ahead, NothingNew
    <3>. QED
      BY <1>2, <1>6, <3>1, <3>3 DEF JobOK
  <2>. QED
    BY <2>1, <2>2
<1>. QED
  BY <1>7, <1>8, <1>9, <1>10, <1>11 DEF LedgerInv

\* The steps that save what says nothing new.
LEMMA PlanKeeps ==
  ASSUME IInv, NEW s \in Savers, Skip(s) \/ Plan(s) \/ Record(s) \/ Fail(s)
  PROVE  LedgerInv'
<1>1. FileTypes /\ LedgerInv /\ LedgerTypes
  BY DEF IInv, FileInv, LedgerInv
<1>2. PICK e \in {data[s], Set(s, Unsettled)} : OpenTmp(s, e)
  BY DEF Skip, Plan, Record, Fail
<1>3. InUse(s) /\ \A t \in Savers : InUse(t)' <=> InUse(t)
  BY <1>1, <1>2, InUseKept
<1>4. job[s] \in Jobs /\ JobOK(job[s])
  BY <1>1, <1>3 DEF LedgerInv, LedgerTypes
<1>5. data[s] \in Logs
  BY <1>1 DEF LedgerTypes, Copies
<1>6. NothingNew
  BY <1>1, <1>2, <1>4, <1>5, SetUnsettled, OpenIsNotNew
<1>7. UNCHANGED <<disk, table, crowded>>
  BY DEF Skip, Plan, Record, Fail
<1>8. \A t \in Savers : t # s => job'[t] = job[t]
  BY <1>1 DEF Skip, Plan, Record, Fail, LedgerTypes
<1>9. /\ job' = [job EXCEPT ![s] = job'[s]]
      /\ job'[s] \in Jobs /\ job'[s].unit = job[s].unit /\ job'[s].db = job[s].db
      /\ JobOK(job[s])'
  <2>1. disk[job[s].unit] \in Nat
    BY <1>1, <1>4 DEF LedgerTypes, Jobs
  <2>2. CASE Skip(s)
    BY <1>1, <1>4, <2>2 DEF Skip, LedgerTypes, Jobs, Stages, JobOK
  <2>3. CASE Plan(s)
    <3>1. job' = [job EXCEPT ![s] = [job[s] EXCEPT !.stage = "handed", !.plan = disk[job[s].unit]]]
      BY <1>1, <2>3 DEF Plan, LedgerTypes
    <3>2. job'[s] = [unit |-> job[s].unit, db |-> job[s].db, stage |-> "handed",
                     plan |-> disk[job[s].unit], read |-> job[s].read]
      BY <1>1, <1>4, <3>1 DEF LedgerTypes, Jobs
    <3>3. job'[s] \in Jobs
      BY <1>4, <2>1, <3>2 DEF Jobs, Stages
    <3>4. JobOK(job[s])'
      BY <1>7, <2>1, <3>2 DEF JobOK
    <3>5. job' = [job EXCEPT ![s] = job'[s]]
      BY <1>1, <3>1 DEF LedgerTypes
    <3>. QED
      BY <3>2, <3>3, <3>4, <3>5
  <2>4. CASE Record(s)
    BY <1>1, <1>4, <1>7, <2>4 DEF Record, LedgerTypes, Jobs, Stages, JobOK
  <2>5. CASE Fail(s)
    BY <1>1, <1>4, <2>5 DEF Fail, LedgerTypes, Jobs, Job, None, Stages, JobOK
  <2>. QED
    BY <2>2, <2>3, <2>4, <2>5
<1>10. job' \in [Savers -> {NoJob} \cup Jobs]
  BY <1>1, <1>9 DEF LedgerTypes
<1>11. \A t \in Savers : InUse(t)' <=> job'[t] \in Jobs
  BY <1>1, <1>3, <1>4, <1>8, <1>9 DEF LedgerTypes
<1>. QED
  BY <1>1, <1>4, <1>6, <1>7, <1>8, <1>9, <1>10, <1>11, Quiet

LEMMA NoJobIsNone == NoJob \notin Jobs
BY DEF NoJob, Jobs, Stages

LEMMA ReadKeeps ==
  ASSUME IInv, NEW s \in Savers, Read(s)
  PROVE  LedgerInv'
<1>1. FileTypes /\ LedgerInv /\ LedgerTypes
  BY DEF IInv, FileInv, LedgerInv
<1>2. /\ pc[s] = "ready" /\ job[s].stage = "handed"
      /\ job' = [job EXCEPT ![s] = [job[s] EXCEPT !.stage = "read", !.read = disk[job[s].unit]]]
      /\ UNCHANGED <<disk, table, crowded>>
      /\ Copies' = Copies /\ pc' = pc
  BY <1>1 DEF Read, vars, Copies, LedgerTypes
<1>3. job[s] \in Jobs /\ JobOK(job[s])
  BY <1>1, <1>2 DEF LedgerInv, LedgerTypes, InUse
<1>4. disk[job[s].unit] \in Nat /\ job[s].unit \in Units /\ job[s].db \in Dbs
  BY <1>1, <1>3 DEF LedgerTypes, Jobs
<1>5. job'[s] = [unit |-> job[s].unit, db |-> job[s].db, stage |-> "read",
                 plan |-> job[s].plan, read |-> disk[job[s].unit]]
  BY <1>1, <1>2, <1>3 DEF LedgerTypes, Jobs
<1>6. job'[s] \in Jobs
  BY <1>3, <1>4, <1>5 DEF Jobs, Stages
<1>7. JobOK(job[s])'
  <2>1. \A c \in Copies : \A v \in Nat :
          Says(c, job[s].unit, job[s].db, v) => v <= disk[job[s].unit]
    BY <1>1, <1>4 DEF LedgerInv, Truthful
  <2>2. Ahead(job[s])'
    BY <1>2, <1>5, <2>1 DEF Ahead, Says
  <2>. QED
    BY <1>2, <1>3, <1>4, <1>5, <2>2 DEF JobOK
<1>8. NothingNew
  BY <1>1, <1>2 DEF NothingNew, LedgerTypes
<1>9. \A t \in Savers : t # s => job'[t] = job[t]
  BY <1>1, <1>2 DEF LedgerTypes
<1>10. job' \in [Savers -> {NoJob} \cup Jobs]
  BY <1>1, <1>2, <1>5, <1>6 DEF LedgerTypes
<1>11. \A t \in Savers : InUse(t)' <=> job'[t] \in Jobs
  BY <1>1, <1>2, <1>3, <1>6, <1>9 DEF LedgerTypes, InUse
<1>. QED
  BY <1>1, <1>2, <1>3, <1>5, <1>7, <1>8, <1>9, <1>10, <1>11, Quiet

LEMMA CommitKeeps ==
  ASSUME IInv, NEW s \in Savers, Commit(s)
  PROVE  LedgerInv'
<1> DEFINE u == job[s].unit
           d == job[s].db
<1>1. FileTypes /\ LedgerInv /\ LedgerTypes
  BY DEF IInv, FileInv, LedgerInv
<1>2. /\ pc[s] = "ready" /\ job[s].stage = "read"
      /\ job' = [job EXCEPT ![s] = [job[s] EXCEPT !.stage = "committed", !.read = None]]
      /\ table' = [table EXCEPT ![d][u] = job[s].read]
      /\ UNCHANGED <<disk, crowded>>
      /\ Copies' = Copies /\ pc' = pc
  BY <1>1 DEF Commit, vars, Copies, LedgerTypes
<1>3. job[s] \in Jobs /\ JobOK(job[s])
  BY <1>1, <1>2 DEF LedgerInv, LedgerTypes, InUse
<1>4. u \in Units /\ d \in Dbs /\ job[s].read \in Nat /\ job[s].plan \in Nat
  BY <1>3 DEF Jobs
<1>5. job'[s] = [unit |-> u, db |-> d, stage |-> "committed", plan |-> job[s].plan, read |-> None]
  BY <1>1, <1>2, <1>3 DEF LedgerTypes, Jobs
<1>6. job'[s] \in Jobs
  BY <1>4, <1>5 DEF Jobs, Stages, None
<1>7. /\ table' \in [Dbs -> [Units -> Nat \cup {Lost}]]
      /\ table'[d][u] = job[s].read
      /\ \A e \in Dbs, w \in Units : e # d \/ w # u => table'[e][w] = table[e][w]
  BY <1>1, <1>2, <1>4 DEF LedgerTypes
<1>8. \A t \in Savers : t # s => job'[t] = job[t]
  BY <1>1, <1>2 DEF LedgerTypes
<1>9. LedgerTypes'
  <2>1. job' \in [Savers -> {NoJob} \cup Jobs]
    BY <1>1, <1>2, <1>5, <1>6 DEF LedgerTypes
  <2>2. \A t \in Savers : InUse(t)' <=> job'[t] \in Jobs
    BY <1>1, <1>2, <1>3, <1>6, <1>8 DEF LedgerTypes, InUse
  <2>. QED
    BY <1>1, <1>2, <1>7, <2>1, <2>2 DEF LedgerTypes
<1>10. TableOld'
  <2>1. job[s].read <= disk[u]
    BY <1>2, <1>3 DEF JobOK
  <2>. QED
    BY <1>1, <1>2, <1>4, <1>7, <2>1 DEF LedgerInv, TableOld
<1>11. Alone'
  BY <1>1, <1>2, <1>3, <1>5, <1>8 DEF LedgerInv, Alone
<1>12. ASSUME NEW c \in Copies' PROVE Truthful(c)'
  <2>1. ASSUME NEW w \in Units, NEW e \in Dbs, NEW v \in Nat, Says(c, w, e, v)
        PROVE  /\ v <= disk[w]
               /\ w \in crowded \/ table'[e][w] = Lost \/ v <= table'[e][w]
    <3>1. /\ v <= disk[w]
          /\ w \in crowded \/ table[e][w] = Lost \/ v <= table[e][w]
      BY <1>1, <1>2, <1>12, <2>1 DEF LedgerInv, Truthful
    <3>2. CASE w = u /\ e = d
      BY <1>2, <1>3, <1>7, <1>12, <2>1, <3>1, <3>2 DEF JobOK, Ahead
    <3>3. CASE w # u \/ e # d
      BY <1>7, <3>1, <3>3
    <3>. QED
      BY <3>2, <3>3
  <2>. QED
    BY <1>2, <2>1 DEF Truthful
<1>13. ASSUME NEW t \in Savers, job'[t] \in Jobs PROVE JobOK(job[t])'
  <2>1. CASE t = s
    <3>1. job[s].plan <= table'[d][u] /\ job[s].plan <= disk[u]
      BY <1>2, <1>3, <1>7 DEF JobOK
    <3>. QED
      BY <1>2, <1>5, <2>1, <3>1 DEF JobOK
  <2>2. CASE t # s
    <3>1. job'[t] = job[t] /\ job[t] \in Jobs /\ JobOK(job[t])
      BY <1>1, <1>8, <1>13, <2>2 DEF LedgerInv
    <3>2. job[t].unit \in Units /\ job[t].db \in Dbs
      BY <3>1 DEF Jobs
    <3>3. \/ job[t].unit \in crowded
          \/ table'[job[t].db][job[t].unit] = table[job[t].db][job[t].unit]
      BY <1>1, <1>3, <1>7, <2>2, <3>1, <3>2 DEF LedgerInv, Alone
    <3>4. Ahead(job[t]) => Ahead(job[t])'
      BY <1>2, <3>1 DEF Ahead
    <3>5. CASE job[t].unit \in crowded
      BY <1>2, <3>1, <3>5 DEF JobOK
    <3>6. CASE table'[job[t].db][job[t].unit] = table[job[t].db][job[t].unit]
      <4>1. disk' = disk /\ crowded' = crowded
        BY <1>2
      <4> DEFINE j == job[t]
      <4>2. job'[t] = j
        BY <3>1
      <4>3. j.stage \in {"committed", "recorded"} =>
              j.unit \in crowded' \/ j.plan <= table'[j.db][j.unit]
        BY <3>1, <3>6, <4>1 DEF JobOK
      <4>4. j.stage = "read" => /\ j.plan <= j.read /\ j.read <= disk'[j.unit]
                                /\ j.unit \in crowded' \/ Ahead(job[t])'
        BY <3>1, <3>4, <4>1 DEF JobOK
      <4>5. j.stage \in {"handed", "read", "committed", "recorded"} => j.plan <= disk'[j.unit]
        BY <3>1, <4>1 DEF JobOK
      <4>. QED
        BY <4>2, <4>3, <4>4, <4>5 DEF JobOK
    <3>. QED
      BY <3>3, <3>5, <3>6
  <2>. QED
    BY <2>1, <2>2
<1>. QED
  BY <1>9, <1>10, <1>11, <1>12, <1>13 DEF LedgerInv

LEMMA SettleKeeps ==
  ASSUME IInv, NEW s \in Savers, Settle(s)
  PROVE  LedgerInv'
<1> DEFINE u == job[s].unit
           d == job[s].db
           e == Set(s, Completed(d, job[s].plan))
<1>1. FileTypes /\ LedgerInv /\ LedgerTypes
  BY DEF IInv, FileInv, LedgerInv
<1>2. /\ job[s].stage = "recorded"
      /\ job' = [job EXCEPT ![s] = [Job(u, d) EXCEPT !.stage = "over"]]
      /\ UNCHANGED <<disk, table, crowded>>
      /\ OpenTmp(s, e)
  BY <1>1 DEF Settle, LedgerTypes
<1>3. InUse(s) /\ \A t \in Savers : InUse(t)' <=> InUse(t)
  BY <1>1, <1>2, InUseKept
<1>4. job[s] \in Jobs /\ JobOK(job[s])
  BY <1>1, <1>3 DEF LedgerInv, LedgerTypes
<1>5. u \in Units /\ d \in Dbs /\ job[s].plan \in Nat
  BY <1>4 DEF Jobs
<1>6. job'[s] = [unit |-> u, db |-> d, stage |-> "over", plan |-> None, read |-> None]
  BY <1>1, <1>2 DEF LedgerTypes, Job
<1>7. job'[s] \in Jobs /\ \A t \in Savers : t # s => job'[t] = job[t]
  BY <1>1, <1>2, <1>5, <1>6 DEF Jobs, Stages, None, LedgerTypes
<1>8. e \in Logs
  BY <1>1, <1>4, <1>5, SetIsLog DEF Entries
<1>9. Copies' \subseteq Copies \cup {Blank, e} /\ data[s] \in Copies
  BY <1>1, <1>2, OpenCopies DEF Copies
<1>10. ASSUME NEW w, NEW f, NEW v, Says(e, w, f, v)
       PROVE  \/ w = u /\ f = d /\ v = job[s].plan
              \/ Says(data[s], w, f, v)
  BY <1>10 DEF Says, Set, Completed
<1>. HIDE DEF e
<1>11. ASSUME NEW c \in Copies', NEW w, NEW f, NEW v, Says(c, w, f, v)
       PROVE  \/ w = u /\ f = d /\ v = job[s].plan
              \/ \E b \in Copies : Says(b, w, f, v)
  BY <1>9, <1>10, <1>11, BlankLog
<1>12. LedgerTypes'
  <2>1. Copies' \subseteq Logs
    BY <1>1, <1>8, <1>9, BlankLog DEF LedgerTypes
  <2>2. job' \in [Savers -> {NoJob} \cup Jobs]
    BY <1>1, <1>2, <1>6, <1>7 DEF LedgerTypes
  <2>3. \A t \in Savers : InUse(t)' <=> job'[t] \in Jobs
    BY <1>1, <1>3, <1>4, <1>7 DEF LedgerTypes
  <2>. QED
    BY <1>1, <1>2, <2>1, <2>2, <2>3 DEF LedgerTypes
<1>13. TableOld'
  BY <1>1, <1>2 DEF LedgerInv, TableOld
<1>14. Alone'
  BY <1>1, <1>2, <1>4, <1>6, <1>7 DEF LedgerInv, Alone
<1>15. ASSUME NEW c \in Copies' PROVE Truthful(c)'
  <2>1. /\ job[s].plan <= disk[u]
        /\ u \in crowded \/ job[s].plan <= table[d][u]
    BY <1>2, <1>4 DEF JobOK
  <2>. QED
    BY <1>1, <1>2, <1>11, <2>1 DEF LedgerInv, Truthful
<1>16. ASSUME NEW t \in Savers, job'[t] \in Jobs PROVE JobOK(job[t])'
  <2>1. CASE t = s
    BY <1>6, <2>1 DEF JobOK
  <2>2. CASE t # s
    <3>1. job'[t] = job[t] /\ job[t] \in Jobs /\ JobOK(job[t])
      BY <1>1, <1>7, <1>16, <2>2 DEF LedgerInv
    <3>2. job[t].unit = u /\ job[t].db = d => u \in crowded
      BY <1>1, <1>4, <2>2, <3>1 DEF LedgerInv, Alone
    <3>3. job[t].unit \in crowded \/ (Ahead(job[t]) => Ahead(job[t])')
      BY <1>11, <3>1, <3>2 DEF Ahead
    <3>. QED
      BY <1>2, <3>1, <3>3 DEF JobOK
  <2>. QED
    BY <2>1, <2>2
<1>. QED
  BY <1>12, <1>13, <1>14, <1>15, <1>16 DEF LedgerInv

\* The steps that save, end a run or write the WAL back.
LEMMA SaveKeeps ==
  ASSUME IInv, NEW s \in Savers, Save(s)
  PROVE  LedgerInv'
<1>1. FileTypes /\ LedgerInv /\ LedgerTypes
  BY DEF IInv, FileInv, LedgerInv
<1>2. Write(s) \/ Replace(s)
  BY DEF Save
<1>3. UNCHANGED <<disk, table, crowded, job>>
  BY DEF Save, lvars
<1>4. NothingNew
  BY <1>1, <1>2, SaveCopies, OldIsNotNew
<1>5. \A t \in Savers : InUse(t)' <=> InUse(t)
  BY <1>1, <1>2, InUseKept
<1>. QED
  BY <1>1, <1>3, <1>4, <1>5, Quiet DEF LedgerTypes

LEMMA ReturnKeeps ==
  ASSUME IInv, NEW s \in Savers, Return(s)
  PROVE  LedgerInv'
<1>1. FileTypes /\ LedgerInv /\ LedgerTypes
  BY DEF IInv, FileInv, LedgerInv
<1>2. /\ Leave(s) \/ ReplaceFails(s)
      /\ job' = [job EXCEPT ![s] = NoJob]
      /\ UNCHANGED <<disk, table, crowded>>
  BY DEF Return
<1>3. NothingNew
  BY <1>1, <1>2, EndCopies, OldIsNotNew
<1>4. \A t \in Savers : InUse(t)' <=> t # s /\ InUse(t)
  BY <1>1, <1>2 DEF FileTypes, Leave, ReplaceFails, InUse
<1>5. /\ job' \in [Savers -> {NoJob} \cup Jobs]
      /\ job'[s] = NoJob
      /\ \A t \in Savers : t # s => job'[t] = job[t]
  BY <1>1, <1>2 DEF LedgerTypes
<1>6. \A t \in Savers : InUse(t)' <=> job'[t] \in Jobs
  BY <1>1, <1>4, <1>5, NoJobIsNone DEF LedgerTypes
<1>. QED
  BY <1>1, <1>2, <1>3, <1>5, <1>6, NoJobIsNone, Quiet

\* Killing leaves to the others what they have.
LEMMA EndedJobs ==
  ASSUME FileTypes, LedgerTypes, NEW ps, Kill(ps), job' = Ended
  PROVE  /\ job' \in [Savers -> {NoJob} \cup Jobs]
         /\ \A t \in Savers : InUse(t)' <=> job'[t] \in Jobs
         /\ \A t \in Savers : job'[t] \in Jobs => job'[t] = job[t]
<1>1. \A t \in Savers : InUse(t)' => InUse(t)
  BY DEF Kill, InUse
<1>2. \A t \in Savers : job'[t] = IF InUse(t)' THEN job[t] ELSE NoJob
  BY DEF Ended
<1>3. job' = [t \in Savers |-> job'[t]]
  BY DEF Ended
<1>. QED
  BY <1>1, <1>2, <1>3, NoJobIsNone DEF LedgerTypes

LEMMA DieKeeps ==
  ASSUME IInv, NEW p \in Processes, Die(p)
  PROVE  LedgerInv'
<1>1. FileTypes /\ LedgerInv /\ LedgerTypes
  BY DEF IInv, FileInv, LedgerInv
<1>2. Kill({p}) /\ job' = Ended /\ UNCHANGED <<disk, table, crowded>>
  BY DEF Die
<1>3. NothingNew
  BY <1>1, <1>2, KillCopies, OldIsNotNew
<1>. QED
  BY <1>1, <1>2, <1>3, EndedJobs, Quiet

LEMMA PowerFailureKeeps ==
  ASSUME IInv, PowerFailure
  PROVE  LedgerInv'
<1>1. FileTypes /\ LedgerInv /\ LedgerTypes
  BY DEF IInv, FileInv, LedgerInv
<1>2. /\ Outage /\ job' = Ended /\ UNCHANGED <<disk, crowded>>
      /\ table' = [d \in Dbs |-> [u \in Units |-> table'[d][u]]]
      /\ \A d \in Dbs, u \in Units : table'[d][u] \in {Lost, table[d][u]}
  BY DEF PowerFailure
<1>3. NothingNew
  BY <1>1, <1>2, OutageCopies, OldIsNotNew
<1>a. \A t \in Savers : ~InUse(t)'
  BY <1>2 DEF Outage, InUse
<1>4. \A t \in Savers : job'[t] \notin Jobs
  BY <1>2, <1>a, NoJobIsNone DEF Ended
<1>5. /\ job' \in [Savers -> {NoJob} \cup Jobs]
      /\ \A t \in Savers : InUse(t)' <=> job'[t] \in Jobs
  BY <1>2, <1>a, <1>4 DEF Ended
<1>6. LedgerTypes'
  <2>1. table' \in [Dbs -> [Units -> Nat \cup {Lost}]]
    BY <1>1, <1>2 DEF LedgerTypes
  <2>. QED
    BY <1>1, <1>2, <1>3, <1>5, <2>1 DEF LedgerTypes, NothingNew
<1>7. TableOld'
  BY <1>1, <1>2 DEF LedgerInv, LedgerTypes, TableOld, Lost
<1>8. Alone'
  BY <1>4 DEF Alone
<1>9. \A c \in Copies' : Truthful(c)'
  BY <1>1, <1>2, <1>3 DEF LedgerInv, NothingNew, Truthful
<1>. QED
  BY <1>4, <1>6, <1>7, <1>8, <1>9 DEF LedgerInv

LEMMA ChangeKeeps ==
  ASSUME IInv, NEW u \in Units, NEW v \in DOMAIN Stamp[u], Change(u, v)
  PROVE  LedgerInv'
<1>1. FileTypes /\ LedgerInv /\ LedgerTypes
  BY DEF IInv, FileInv, LedgerInv
<1>2. /\ v \in Nat /\ v > disk[u] /\ disk' = [disk EXCEPT ![u] = v]
      /\ UNCHANGED <<table, crowded, job>> /\ Copies' = Copies /\ pc' = pc
  BY LedgerAssumption DEF Change, vars, Copies
<1>3. disk' \in [Units -> Nat] /\ \A w \in Units : disk[w] <= disk'[w]
  BY <1>1, <1>2 DEF LedgerTypes
<1>4. LedgerTypes'
  BY <1>1, <1>2, <1>3 DEF LedgerTypes, InUse
<1>5. TableOld'
  <2>1. ASSUME NEW d \in Dbs, NEW w \in Units PROVE table'[d][w] <= disk'[w]
    <3>1. table[d][w] <= disk[w] /\ table[d][w] \in Int /\ disk[w] \in Int /\ disk'[w] \in Int
      BY <1>1, <1>3 DEF LedgerInv, LedgerTypes, TableOld, Lost
    <3>. QED
      BY <1>2, <1>3, <3>1
  <2>. QED
    BY <2>1 DEF TableOld
<1>6. Alone'
  BY <1>1, <1>2 DEF LedgerInv, Alone
<1>7. \A c \in Copies' : Truthful(c)'
  <2>1. ASSUME NEW c \in Copies, NEW w \in Units, NEW d \in Dbs, NEW x \in Nat, Says(c, w, d, x)
        PROVE  /\ x <= disk'[w]
               /\ w \in crowded \/ table[d][w] = Lost \/ x <= table[d][w]
    <3>1. /\ x <= disk[w]
          /\ w \in crowded \/ table[d][w] = Lost \/ x <= table[d][w]
      BY <1>1, <2>1 DEF LedgerInv, Truthful
    <3>2. disk[w] \in Nat /\ disk'[w] \in Nat
      BY <1>1, <1>3 DEF LedgerTypes
    <3>. QED
      BY <1>3, <3>1, <3>2
  <2>. QED
    BY <1>2, <2>1 DEF Truthful
<1>8. ASSUME NEW t \in Savers, job'[t] \in Jobs PROVE JobOK(job[t])'
  <2> DEFINE j == job[t]
  <2>1. job'[t] = j /\ j \in Jobs /\ JobOK(j) /\ table' = table /\ crowded' = crowded
    BY <1>1, <1>2, <1>8 DEF LedgerInv
  <2>2. /\ disk[j.unit] \in Nat /\ disk'[j.unit] \in Nat /\ disk[j.unit] <= disk'[j.unit]
        /\ j.plan \in Nat /\ j.read \in Nat
    BY <1>1, <1>3, <2>1 DEF LedgerTypes, Jobs
  <2>3. Ahead(j) => Ahead(job[t])'
    BY <1>2, <2>1 DEF Ahead
  <2>4. j.stage \in {"handed", "read", "committed", "recorded"} => j.plan <= disk'[j.unit]
    BY <2>1, <2>2 DEF JobOK
  <2>5. j.stage = "read" => /\ j.plan <= j.read /\ j.read <= disk'[j.unit]
                            /\ j.unit \in crowded \/ Ahead(job[t])'
    BY <2>1, <2>2, <2>3 DEF JobOK
  <2>6. j.stage \in {"committed", "recorded"} => j.unit \in crowded \/ j.plan <= table[j.db][j.unit]
    BY <2>1 DEF JobOK
  <2>. QED
    BY <2>1, <2>4, <2>5, <2>6 DEF JobOK
<1>. QED
  BY <1>4, <1>5, <1>6, <1>7, <1>8 DEF LedgerInv

\* A step that leaves the state log alone.
LEMMA FileStays == FileInv /\ UNCHANGED vars => FileInv'
<1>. SUFFICES ASSUME FileInv, UNCHANGED vars PROVE FileInv'
  OBVIOUS
<1>1. FileTypes' /\ Handles'
  BY DEF FileInv, FileTypes, Handles, vars
<1>2. Owned'
  BY DEF FileInv, Owned, InUse, vars
<1>3. sharing' = sharing /\ (~sharing => Apart' /\ OneName' /\ Mine')
  BY DEF FileInv, Apart, OneName, Mine, InUse, vars
<1>4. LogIsWhole'
  BY DEF FileInv, LogIsWhole, vars
<1>. QED
  BY <1>1, <1>2, <1>3, <1>4 DEF FileInv

\* A step that changes neither copies nor jobs.
LEMMA StutterKeeps ==
  ASSUME IInv, UNCHANGED <<vars, disk, table, job, crowded>>
  PROVE  FileInv' /\ LedgerInv'
<1>1. Copies' = Copies
  BY DEF vars, Copies
<1>2. LedgerInv'
  BY <1>1 DEF IInv, LedgerInv, LedgerTypes, TableOld, Alone, Truthful, JobOK, Ahead, Says, InUse, vars
<1>3. FileInv'
  BY FileStays DEF IInv
<1>. QED
  BY <1>2, <1>3

-----------------------------------------------------------------------------
(* The theorems *)

LEMMA InitInv == LedgerInit => IInv
<1>. SUFFICES ASSUME LedgerInit PROVE IInv
  OBVIOUS
<1>1. PICK done \in SUBSET Dbs :
        LET e == IF done = {} THEN Blank ELSE [u \in Units |-> Completed(CHOOSE d \in done : TRUE, 1)]
        IN  /\ Init(e)
            /\ table = [d \in Dbs |-> [u \in Units |-> IF d \in done THEN 1 ELSE None]]
            /\ Cardinality(done) <= 1
  BY DEF LedgerInit
<1> DEFINE db == CHOOSE d \in done : TRUE
           e == IF done = {} THEN Blank ELSE [u \in Units |-> Completed(db, 1)]
<1>2. done # {} => db \in done /\ db \in Dbs
  OBVIOUS
<1>3. e \in Logs
  <2>1. CASE done = {}
    BY <2>1, BlankLog
  <2>2. CASE done # {}
    <3>1. \A d \in Dbs : Completed(d, 1) \in Entries
      BY DEF Entries
    <3>2. Completed(db, 1) \in Entries
      BY <1>2, <2>2, <3>1
    <3>3. e \in [Units -> Entries]
      BY <2>2, <3>2
    <3>. QED
      BY <3>3 DEF Logs
  <2>. QED
    BY <2>1, <2>2
<1>4. \A u, d, v : Says(e, u, d, v) => done # {} /\ d = db /\ v = 1
  BY BlankLog DEF Says, Completed
<1>5. Init(e)
  BY <1>1
<1>. HIDE DEF e, db
<1>6. /\ disk = [u \in Units |-> 1] /\ crowded = {}
      /\ job = [s \in Savers |-> NoJob]
      /\ \A d \in Dbs, u \in Units : table[d][u] = IF d \in done THEN 1 ELSE 0
      /\ table \in [Dbs -> [Units -> Nat]]
  BY <1>1 DEF LedgerInit, None
<1>7. Copies \subseteq {Blank, e}
  BY <1>5 DEF Init, Copies, Empty
<1>8. \A s \in Savers : job[s] \notin Jobs /\ ~InUse(s)
  BY <1>5, <1>6, NoJobIsNone DEF Init, InUse
<1>9. LedgerTypes
  BY <1>3, <1>6, <1>7, <1>8, BlankLog DEF LedgerTypes
<1>10. TableOld /\ Alone
  BY <1>6, <1>8 DEF TableOld, Alone
<1>11. \A c \in Copies : Truthful(c)
  BY <1>2, <1>4, <1>6, <1>7, BlankLog DEF Truthful
<1>12. FileInv
  BY <1>5, InitFiles
<1>. QED
  BY <1>8, <1>9, <1>10, <1>11, <1>12 DEF IInv, LedgerInv

LEMMA NextInv == IInv /\ [LedgerNext]_<<vars, lvars>> => IInv'
<1>. SUFFICES ASSUME IInv, [LedgerNext]_<<vars, lvars>> PROVE IInv'
  OBVIOUS
<1>. USE DEF IInv
<1>1. ASSUME NEW s \in Savers, NEW u \in Units, NEW d \in Dbs, Start(s, u, d) PROVE IInv'
  BY <1>1, StartKeeps, LoadKeeps DEF Start
<1>2. ASSUME NEW s \in Savers, Skip(s) \/ Plan(s) \/ Record(s) \/ Fail(s) PROVE IInv'
  BY <1>2, PlanKeeps, OpenKeeps DEF Skip, Plan, Record, Fail
<1>3. ASSUME NEW s \in Savers, Read(s) PROVE IInv'
  <2>1. FileInv'
    BY <1>3, FileStays DEF Read
  <2>. QED
    BY <1>3, <2>1, ReadKeeps
<1>4. ASSUME NEW s \in Savers, Commit(s) PROVE IInv'
  <2>1. FileInv'
    BY <1>4, FileStays DEF Commit
  <2>. QED
    BY <1>4, <2>1, CommitKeeps
<1>5. ASSUME NEW s \in Savers, Settle(s) PROVE IInv'
  BY <1>5, SettleKeeps, OpenKeeps DEF Settle
<1>6. ASSUME NEW s \in Savers, Return(s) PROVE IInv'
  BY <1>6, ReturnKeeps, EndKeeps DEF Return
<1>7. ASSUME NEW s \in Savers, Save(s) PROVE IInv'
  BY <1>7, SaveKeeps, WriteKeeps, ReplaceKeeps DEF Save
<1>8. ASSUME NEW p \in Processes, Die(p) PROVE IInv'
  BY <1>8, DieKeeps, KillKeeps DEF Die
<1>9. ASSUME PowerFailure PROVE IInv'
  BY <1>9, PowerFailureKeeps, OutageKeeps DEF PowerFailure
<1>10. ASSUME NEW d \in Dbs, Checkpoint(d) PROVE IInv'
  BY <1>10, StutterKeeps DEF Checkpoint
<1>11. ASSUME NEW u \in Units, NEW v \in DOMAIN Stamp[u], Change(u, v) PROVE IInv'
  <2>1. FileInv'
    BY <1>11, FileStays DEF Change
  <2>. QED
    BY <1>11, <2>1, ChangeKeeps
<1>12. CASE UNCHANGED <<vars, lvars>>
  BY <1>12, StutterKeeps DEF lvars
<1>. QED
  BY <1>1, <1>2, <1>3, <1>4, <1>5, <1>6, <1>7, <1>8, <1>9, <1>10, <1>11, <1>12 DEF LedgerNext

LEMMA InvAlways == LedgerSpec => []IInv
  BY InitInv, NextInv, PTL DEF LedgerSpec

\* LogIsWhole: whenever a saver is killed in save (state.py:67-80), the log stays whole.
THEOREM LogAlwaysWhole == LedgerSpec => []LogIsWhole
<1>1. IInv => LogIsWhole
  BY DEF IInv, FileInv
<1>. QED
  BY <1>1, InvAlways, PTL

\* NoLitter: a temporary file is that of a save under way or of one that was killed.
THEOREM NeverLitter == LedgerSpec => []NoLitter
<1>1. IInv => NoLitter
  BY LitterFree DEF IInv
<1>. QED
  BY <1>1, InvAlways, PTL

-----------------------------------------------------------------------------
(* Nothing is forgotten *)

\* A saver has every entry of the log, but for what it says itself of its unit.
Keeps(s) == \A u \in DOMAIN inode[log].entries :
  /\ u \in DOMAIN data[s]
  /\ data[s][u] = inode[log].entries[u] \/ u = job[s].unit

\* As long as one run was under way at a time, the one there is began with the log.
KeepInv ==
  /\ sharing => together
  /\ ~together => /\ \A s, t \in Savers : InUse(s) /\ InUse(t) => s = t
                  /\ \A s \in Savers : InUse(s) /\ log # NoFile => Keeps(s)

\* The log is touched by nothing but a rename.
LogStays == log' = log /\ (log # NoFile => inode'[log] = inode[log])

LEMMA OpenSpares ==
  ASSUME FileInv, ~sharing, NEW s \in Savers, NEW e, OpenTmp(s, e)
  PROVE  LogStays
<1> DEFINE n == IF tmp[pid[s]] = NoFile THEN Fresh ELSE tmp[pid[s]]
<1>1. FileTypes /\ OneName /\ pid[s] \in Processes /\ log' = log /\ inode' = [inode EXCEPT ![n] = Empty]
  BY DEF FileInv, FileTypes, OpenTmp
<1>2. n # log
  BY <1>1, FreshIsNew DEF Named, OneName
<1>. QED
  BY <1>1, <1>2 DEF LogStays, FileTypes, Files

LEMMA WriteSpares ==
  ASSUME FileInv, ~sharing, NEW s \in Savers, Write(s)
  PROVE  LogStays
<1>1. FileTypes /\ OneName /\ pid[s] \in Processes /\ fh[s] = tmp[pid[s]] /\ fh[s] # NoFile
  BY DEF FileInv, FileTypes, Write, Mine, Handles
<1>2. fh[s] # log
  BY <1>1 DEF OneName
<1>3. PICK holds \in {[whole |-> TRUE, entries |-> data[s]], Empty} :
        inode' = Freed([inode EXCEPT ![fh[s]] = holds], Named(log, tmp) \cup Open(fh'))
  BY DEF Write
<1>. QED
  BY <1>1, <1>2, <1>3 DEF LogStays, Write, FileTypes, Files, Freed, Named

LEMMA KillSpares ==
  ASSUME FileInv, NEW ps, Kill(ps)
  PROVE  LogStays
BY DEF FileInv, FileTypes, Files, Kill, LogStays, Freed, Named

\* A step that spares the log, and in which every run goes on with what it had, but for
\* its own unit, or ends.
LEMMA GoOnKeeps ==
  ASSUME KeepInv, LogStays, UNCHANGED <<together, sharing>>,
         \A t \in Savers : InUse(t)' =>
           /\ InUse(t) /\ job'[t].unit = job[t].unit
           /\ DOMAIN data[t] \subseteq DOMAIN data'[t]
           /\ \A u \in DOMAIN data[t] : data'[t][u] = data[t][u] \/ u = job[t].unit
  PROVE  KeepInv'
<1>1. ASSUME ~together', NEW t \in Savers, InUse(t)', log' # NoFile PROVE Keeps(t)'
  BY <1>1 DEF KeepInv, LogStays, Keeps
<1>. QED
  BY <1>1 DEF KeepInv

LEMMA StartIsKept ==
  ASSUME IInv, KeepInv, NEW s \in Savers, NEW u \in Units, NEW d \in Dbs, Start(s, u, d)
  PROVE  KeepInv' /\ LogStays
<1>1. FileTypes /\ LogIsWhole /\ LedgerTypes
  BY DEF IInv, FileInv, LedgerInv
<1>2. LogStays /\ data' = [data EXCEPT ![s] = Loaded] /\ pc' = [pc EXCEPT ![s] = "ready"]
      /\ together' = (together \/ \E t \in Savers : InUse(t))
      /\ sharing' = (sharing \/ \E t \in Savers : InUse(t) /\ pid[t] = pid[s])
  BY DEF Start, Load, LogStays
<1>3. sharing' => together'
  BY <1>2 DEF KeepInv
<1>4. ASSUME ~together' PROVE \A t \in Savers : InUse(t)' => t = s
  BY <1>1, <1>2, <1>4 DEF FileTypes, InUse
<1>5. ASSUME ~together', log' # NoFile PROVE Keeps(s)'
  <2>1. data'[s] = inode[log].entries
    BY <1>1, <1>2, <1>5 DEF KeepInv, LogStays, LogIsWhole, FileTypes, Loaded
  <2>. QED
    BY <1>2, <1>5, <2>1 DEF LogStays, Keeps
<1>. QED
  BY <1>2, <1>3, <1>4, <1>5 DEF KeepInv

LEMMA SetIsKept ==
  ASSUME IInv, KeepInv, NEW s \in Savers,
         Skip(s) \/ Plan(s) \/ Record(s) \/ Settle(s) \/ Fail(s)
  PROVE  KeepInv' /\ (~together => LogStays)
<1>1. FileInv /\ FileTypes /\ LedgerTypes
  BY DEF IInv, FileInv, LedgerInv
<1>2. PICK f : \/ OpenTmp(s, data[s])
              \/ OpenTmp(s, Set(s, f))
  BY DEF Skip, Plan, Record, Settle, Fail
<1>3. pc[s] = "ready" /\ InUse(s) /\ job[s] \in Jobs
  BY <1>1, <1>2 DEF OpenTmp, InUse, LedgerTypes
<1>4. job'[s].unit = job[s].unit /\ \A t \in Savers : t # s => job'[t] = job[t]
  BY <1>1, <1>3 DEF Skip, Plan, Record, Settle, Fail, Job, LedgerTypes, Jobs
<1>5. /\ pc' = [pc EXCEPT ![s] = "opened"] /\ UNCHANGED <<together, sharing>>
      /\ data' = [data EXCEPT ![s] = data[s]] \/ data' = [data EXCEPT ![s] = Set(s, f)]
  BY <1>2 DEF OpenTmp, past
<1>6. DOMAIN data[s] \subseteq DOMAIN data'[s]
      /\ \A u \in DOMAIN data[s] : data'[s][u] = data[s][u] \/ u = job[s].unit
  BY <1>1, <1>5 DEF FileTypes, Set
<1>7. \A t \in Savers : t # s => data'[t] = data[t]
  BY <1>1, <1>5 DEF FileTypes
<1>8. \A t \in Savers : InUse(t)' => InUse(t)
  BY <1>1, <1>3, <1>5 DEF FileTypes, InUse
<1>9. ~together => LogStays
  BY <1>1, <1>2, OpenSpares DEF KeepInv
<1>10. CASE together
  BY <1>5, <1>10 DEF KeepInv
<1>11. CASE ~together
  BY <1>4, <1>5, <1>6, <1>7, <1>8, <1>9, <1>11, GoOnKeeps
<1>. QED
  BY <1>9, <1>10, <1>11

LEMMA SaveIsKept ==
  ASSUME IInv, KeepInv, NEW s \in Savers, Save(s)
  PROVE  /\ KeepInv'
         /\ ~together => \/ LogStays
                         \/ log' # NoFile /\ inode'[log'].entries = data[s] /\ InUse(s)
<1>1. FileInv /\ FileTypes /\ UNCHANGED <<data, job, together, sharing>>
  BY DEF IInv, FileInv, Save, Write, Replace, past, lvars
<1>2. \A t \in Savers : InUse(t)' <=> InUse(t)
  BY <1>1, InUseKept DEF Save
<1>3. CASE together
  BY <1>1, <1>3 DEF KeepInv
<1>4. CASE ~together /\ Write(s)
  <2>1. LogStays
    BY <1>1, <1>4, WriteSpares DEF KeepInv
  <2>. QED
    BY <1>1, <1>2, <2>1, GoOnKeeps
<1>5. CASE ~together /\ Replace(s)
  <2>1. ~sharing /\ Mine /\ InUse(s) /\ pc[s] = "written" /\ pid[s] \in Processes
    BY <1>1, <1>5 DEF KeepInv, FileInv, FileTypes, Replace, InUse
  <2>2. log' = tmp[pid[s]] /\ log' # NoFile /\ inode[log'].entries = data[s] /\ log' \in Inodes
    BY <1>1, <1>5, <2>1 DEF Mine, Replace, FileTypes, Files
  <2>3. inode'[log'] = inode[log']
    BY <1>5, <2>2 DEF Replace, Freed, Named
  <2>4. \A t \in Savers : InUse(t)' => t = s
    BY <1>2, <1>5, <2>1 DEF KeepInv
  <2>5. Keeps(s)'
    BY <1>1, <2>2, <2>3 DEF Keeps
  <2>6. KeepInv'
    BY <1>1, <1>5, <2>4, <2>5 DEF KeepInv
  <2>. QED
    BY <2>1, <2>2, <2>3, <2>6
<1>. QED
  BY <1>3, <1>4, <1>5 DEF Save

\* After an outage nobody is left who could have begun with another log.
LEMMA OutageIsKept ==
  ASSUME KeepInv, PowerFailure
  PROVE  KeepInv'
BY DEF KeepInv, PowerFailure, Outage, InUse

LEMMA EndIsKept ==
  ASSUME IInv, KeepInv,
         (\E s \in Savers : Return(s)) \/ (\E p \in Processes : Die(p))
  PROVE  KeepInv' /\ LogStays
<1>1. FileInv /\ FileTypes /\ LedgerTypes
  BY DEF IInv, FileInv, LedgerInv
<1>2. ASSUME NEW s \in Savers, Return(s) PROVE KeepInv' /\ LogStays
  <2>1. /\ UNCHANGED <<inode, log, together, sharing>> /\ pc' = [pc EXCEPT ![s] = "off"]
        /\ data' = [data EXCEPT ![s] = Blank] /\ job' = [job EXCEPT ![s] = NoJob]
    BY <1>2 DEF Return, Leave, ReplaceFails, past
  <2>2. LogStays
    BY <2>1 DEF LogStays
  <2>3. \A t \in Savers : InUse(t)' => InUse(t) /\ job'[t] = job[t] /\ data'[t] = data[t]
    BY <1>1, <2>1 DEF FileTypes, LedgerTypes, InUse
  <2>. QED
    BY <2>1, <2>2, <2>3, GoOnKeeps
<1>3. ASSUME NEW ps, Kill(ps), job' = Ended PROVE KeepInv' /\ LogStays
  <2>1. LogStays
    BY <1>1, <1>3, KillSpares
  <2>2. \A t \in Savers : InUse(t)' => InUse(t) /\ job'[t] = job[t] /\ data'[t] = data[t]
    BY <1>3 DEF Kill, Ended, InUse
  <2>3. UNCHANGED <<together, sharing>>
    BY <1>3 DEF Kill
  <2>. QED
    BY <2>1, <2>2, <2>3, GoOnKeeps
<1>. QED
  BY <1>2, <1>3 DEF Die

LEMMA AsideIsKept ==
  ASSUME IInv, KeepInv,
         \/ \E s \in Savers : Read(s) \/ Commit(s)
         \/ \E d \in Dbs : Checkpoint(d)
         \/ \E u \in Units : \E v \in DOMAIN Stamp[u] : Change(u, v)
         \/ UNCHANGED <<vars, lvars>>
  PROVE  KeepInv' /\ LogStays
<1>1. UNCHANGED vars
  BY DEF Read, Commit, Checkpoint, Change
<1>2. ASSUME NEW t \in Savers, InUse(t) PROVE job'[t].unit = job[t].unit
  <2>1. LedgerTypes /\ job[t] \in Jobs
    BY <1>2 DEF IInv, LedgerInv, LedgerTypes
  <2>2. ASSUME NEW s \in Savers, Read(s) PROVE job'[t].unit = job[t].unit
    BY <2>1, <2>2 DEF Read, LedgerTypes, Jobs
  <2>3. ASSUME NEW s \in Savers, Commit(s) PROVE job'[t].unit = job[t].unit
    BY <2>1, <2>3 DEF Commit, LedgerTypes, Jobs
  <2>. QED
    BY <2>1, <2>2, <2>3 DEF Checkpoint, Change, lvars
<1>3. LogStays
  BY <1>1 DEF vars, LogStays
<1>4. \A t \in Savers : InUse(t)' => InUse(t) /\ data'[t] = data[t]
  BY <1>1 DEF vars, InUse
<1>5. UNCHANGED <<together, sharing>>
  BY <1>1 DEF vars
<1>. QED
  BY <1>2, <1>3, <1>4, <1>5, GoOnKeeps

\* What a step does to the log.
LEMMA StepKeeps ==
  ASSUME IInv, KeepInv, [LedgerNext]_<<vars, lvars>>
  PROVE  /\ KeepInv'
         /\ ~together => \/ PowerFailure \/ LogStays
                         \/ \E s \in Savers : log' # NoFile /\ inode'[log'].entries = data[s] /\ InUse(s)
BY StartIsKept, SetIsKept, SaveIsKept, EndIsKept, OutageIsKept, AsideIsKept DEF LedgerNext

\* NothingForgotten: save writes the whole log (state.py:67-80), and what it writes has all
\* that was in the log, as long as one run was under way at a time; so no kill and no save
\* loses an entry, and only a power failure, which may undo renames, shows an earlier log.
THEOREM NothingIsForgotten == LedgerSpec => NothingForgotten
<1> DEFINE Kept ==
      log # NoFile /\ ~together =>
        \/ PowerFailure
        \/ /\ log' # NoFile
           /\ \A u \in DOMAIN inode[log].entries :
                /\ u \in DOMAIN inode'[log'].entries
                /\ \/ inode'[log'].entries[u] = inode[log].entries[u]
                   \/ \E s \in Savers : InUse(s) /\ job[s].unit = u
<1>1. LedgerInit => KeepInv
  BY DEF LedgerInit, Init, KeepInv, InUse
<1>2. IInv /\ KeepInv /\ [LedgerNext]_<<vars, lvars>> => KeepInv'
  BY StepKeeps
<1>3. ASSUME IInv, KeepInv, [LedgerNext]_<<vars, lvars>> PROVE [Kept]_<<vars, lvars>>
  <2>. SUFFICES ASSUME log # NoFile, ~together PROVE Kept
    OBVIOUS
  <2>1. CASE LogStays
    BY <2>1 DEF LogStays
  <2>2. ASSUME NEW s \in Savers, log' # NoFile, inode'[log'].entries = data[s], InUse(s) PROVE Kept
    BY <1>3, <2>2 DEF KeepInv, Keeps
  <2>. QED
    BY <1>3, <2>1, <2>2, StepKeeps
<1>. QED
  BY <1>1, <1>2, <1>3, InvAlways, PTL DEF LedgerSpec, NothingForgotten

-----------------------------------------------------------------------------
(* Skips *)

\* A unit that should_skip passes over has the rows of what is on the disk, or is one of
\* the exceptions.
LEMMA SkipJustified ==
  ASSUME IInv, NEW s \in Savers, job[s] \in Jobs, ShouldSkip(s)
  PROVE  LET u == job[s].unit
             e == data[s][u]
         IN \/ table[job[s].db][u] \in {disk[u], Lost}
            \/ e.version # disk[u] /\ Near(Stamp[u][e.version], Stamp[u][disk[u]])
            \/ e.db # job[s].db
            \/ u \in crowded
<1> DEFINE u == job[s].unit
           e == data[s][u]
<1>1. LedgerTypes /\ TableOld /\ data[s] \in Copies /\ Truthful(data[s])
  BY DEF IInv, LedgerInv, Copies
<1>2. u \in Units /\ job[s].db \in Dbs
  BY DEF Jobs
<1>3. u \in DOMAIN data[s] /\ e \in Entries /\ e.status = "COMPLETED"
  <2>1. u \in DOMAIN data[s] /\ e.status = "COMPLETED"
    BY DEF ShouldSkip
  <2>2. PICK D \in SUBSET Units : data[s] \in [D -> Entries]
    BY <1>1 DEF LedgerTypes, Logs
  <2>. QED
    BY <2>1, <2>2
<1>4. PICK d \in Dbs, v \in Nat : e = Completed(d, v)
  BY <1>3 DEF Entries, Unsettled
<1>5. e.db = d /\ e.version = v
  BY <1>4 DEF Completed
<1>6. Near(Stamp[u][v], Stamp[u][disk[u]])
  BY <1>5 DEF ShouldSkip
<1>7. v <= disk[u] /\ (u \in crowded \/ table[d][u] = Lost \/ v <= table[d][u])
  BY <1>1, <1>2, <1>3, <1>4 DEF Truthful, Says
<1>8. table[d][u] <= disk[u] /\ table[d][u] \in Int /\ disk[u] \in Int
  BY <1>1, <1>2 DEF TableOld, LedgerTypes, Lost
<1>9. v = disk[u] /\ d = job[s].db => u \in crowded \/ table[job[s].db][u] \in {disk[u], Lost}
  BY <1>7, <1>8
<1>. QED
  BY <1>5, <1>6, <1>9

\* Only Skip takes a run to the stage "skipped".
LEMMA OnlySkipSkips ==
  ASSUME LedgerTypes, [LedgerNext]_<<vars, lvars>>,
         NEW s \in Savers, job[s].stage # "skipped", job'[s].stage = "skipped"
  PROVE  job[s] \in Jobs /\ ShouldSkip(s)
<1>1. NoJob.stage # "skipped"
  BY DEF NoJob
<1>2. job'[s] # job[s]
  OBVIOUS
<1>3. \A t \in Savers : \A j : job' = [job EXCEPT ![t] = j] /\ j.stage # "skipped" => FALSE
  BY <1>2 DEF LedgerTypes
<1>4. \A t \in Savers : pc[t] = "ready" => job[t] \in Jobs
  BY DEF LedgerTypes, InUse
<1>5. ASSUME NEW t \in Savers, NEW u \in Units, NEW d \in Dbs, Start(t, u, d) PROVE FALSE
  <2>1. Job(u, d).stage # "skipped"
    BY DEF Job
  <2>. QED
    BY <1>3, <1>5, <2>1 DEF Start
<1>6. ASSUME NEW t \in Savers, Skip(t) PROVE job[s] \in Jobs /\ ShouldSkip(s)
  <2>1. t = s
    BY <1>2, <1>6 DEF Skip, LedgerTypes
  <2>. QED
    BY <1>4, <1>6, <2>1 DEF Skip, OpenTmp
<1>7. ASSUME NEW t \in Savers, Plan(t) PROVE FALSE
  <2>1. job[t] \in Jobs
    BY <1>4, <1>7 DEF Plan, OpenTmp
  <2>2. job'[t].stage = "handed" /\ \A r \in Savers : r # t => job'[r] = job[r]
    BY <1>7, <2>1 DEF Plan, LedgerTypes, Jobs
  <2>. QED
    BY <1>2, <2>2
<1>8. ASSUME NEW t \in Savers, Read(t) PROVE FALSE
  <2>1. job[t] \in Jobs
    BY <1>4, <1>8 DEF Read
  <2>2. job'[t].stage = "read" /\ \A r \in Savers : r # t => job'[r] = job[r]
    BY <1>8, <2>1 DEF Read, LedgerTypes, Jobs
  <2>. QED
    BY <1>2, <2>2
<1>9. ASSUME NEW t \in Savers, Commit(t) PROVE FALSE
  <2>1. job[t] \in Jobs
    BY <1>4, <1>9 DEF Commit
  <2>2. job'[t].stage = "committed" /\ \A r \in Savers : r # t => job'[r] = job[r]
    BY <1>9, <2>1 DEF Commit, LedgerTypes, Jobs
  <2>. QED
    BY <1>2, <2>2
<1>10. ASSUME NEW t \in Savers, Record(t) PROVE FALSE
  <2>1. job[t] \in Jobs
    BY <1>4, <1>10 DEF Record, OpenTmp
  <2>2. job'[t].stage = "recorded" /\ \A r \in Savers : r # t => job'[r] = job[r]
    BY <1>10, <2>1 DEF Record, LedgerTypes, Jobs
  <2>. QED
    BY <1>2, <2>2
<1>11. ASSUME NEW t \in Savers, Settle(t) \/ Fail(t) PROVE FALSE
  <2>1. job' = [job EXCEPT ![t] = [Job(job[t].unit, job[t].db) EXCEPT !.stage = "over"]]
    BY <1>11 DEF Settle, Fail
  <2>2. [Job(job[t].unit, job[t].db) EXCEPT !.stage = "over"].stage # "skipped"
    BY DEF Job
  <2>. QED
    BY <1>3, <2>1, <2>2
<1>12. ASSUME NEW t \in Savers, Return(t) PROVE FALSE
  BY <1>1, <1>3, <1>12 DEF Return
<1>13. CASE (\E p \in Processes : Die(p)) \/ PowerFailure
  BY <1>1, <1>2, <1>13 DEF Die, PowerFailure, Ended
<1>14. CASE \/ \E t \in Savers : Save(t)
            \/ \E d \in Dbs : Checkpoint(d)
            \/ \E u \in Units : \E v \in DOMAIN Stamp[u] : Change(u, v)
            \/ UNCHANGED <<vars, lvars>>
  BY <1>2, <1>14 DEF Save, Checkpoint, Change, lvars
<1>. QED
  BY <1>5, <1>6, <1>7, <1>8, <1>9, <1>10, <1>11, <1>12, <1>13, <1>14 DEF LedgerNext

\* SkipIsJustified: no run passes over a unit whose rows are not those of the file
\* (orchestrator.py:141), but in the cases that should_skip cannot see.
THEOREM SkipsAreJustified == LedgerSpec => SkipIsJustified
<1> DEFINE Justified == \A s \in Savers :
             LET u == job[s].unit
                 e == data[s][u]
             IN job[s].stage # "skipped" /\ job'[s].stage = "skipped" =>
                  \/ table[job[s].db][u] \in {disk[u], Lost}
                  \/ e.version # disk[u] /\ Near(Stamp[u][e.version], Stamp[u][disk[u]])
                  \/ e.db # job[s].db
                  \/ u \in crowded
<1>1. ASSUME IInv, [LedgerNext]_<<vars, lvars>> PROVE [Justified]_<<vars, lvars>>
  <2>. SUFFICES ASSUME NEW s \in Savers, job[s].stage # "skipped", job'[s].stage = "skipped"
                PROVE  job[s] \in Jobs /\ ShouldSkip(s)
    BY <1>1, SkipJustified
  <2>1. LedgerTypes
    BY <1>1 DEF IInv, LedgerInv
  <2>. QED
    BY <1>1, <2>1, OnlySkipSkips
<1>. QED
  BY <1>1, InvAlways, PTL DEF LedgerSpec, SkipIsJustified
===============================================================================
